---------------------------- MODULE Spec2Model ----------------------------
(***************************************************************************)
(* A model of the client-side search layer of the canon reader: text       *)
(* normalisation, the literal and the fuzzy search functions, title        *)
(* enrichment, de-duplicating rendering and the snippet highlighter.       *)
(*                                                                         *)
(* A JavaScript string is a sequence of characters; a character is a       *)
(* one-code-point token ("a", " ", "\t", ...).  Offsets are 0-based as in  *)
(* the source; Substring(s, a, b) is s.substring(a, b).                    *)
(***************************************************************************)
EXTENDS Integers, Sequences, FiniteSets, TLC

(***************************************************************************)
(* Bounds of the model.                                                    *)
(***************************************************************************)
MaxTextLen == 5
MaxTermLen == 3
MaxContextLength == 1

(***************************************************************************)
(* Characters.                                                             *)
(***************************************************************************)
\* U+00E1 (a with acute, precomposed) and U+0301 (combining acute accent).
AAcute == "U+00E1"
AAcuteUpper == "U+00C1"
CombiningAcute == "U+0301"

\* The characters JavaScript's \s matches, as far as the model has them.
WhiteSpace == {" ", "\t"}

\* String.prototype.toLowerCase, one character at a time.
ToLowerChar(c) ==
    CASE c = "A" -> "a"
      [] c = AAcuteUpper -> AAcute
      [] c = "R" -> "r"
      [] c = "B" -> "b"
      [] OTHER -> c

\* Mutant of NFDChar: no character is decomposed.
NFDCharUndecomposed(c) == <<c>>

\* String.prototype.normalize('NFD'), one character at a time.
NFDChar(c) ==
    IF c = AAcute THEN <<"a", CombiningAcute>>
    ELSE IF c = AAcuteUpper THEN <<"A", CombiningAcute>>
    ELSE <<c>>

\* The class [U+0300-U+036F] of combining diacritical marks.
IsCombining(c) == c = CombiningAcute

(***************************************************************************)
(* Strings.                                                                *)
(***************************************************************************)
Substring(s, a, b) ==
    LET e == IF b > Len(s) THEN Len(s) ELSE b
    IN  IF e <= a THEN <<>> ELSE SubSeq(s, a + 1, e)

ToLowerCase(s) == [i \in 1..Len(s) |-> ToLowerChar(s[i])]

RECURSIVE Concat(_)
Concat(ss) == IF ss = <<>> THEN <<>> ELSE Head(ss) \o Concat(Tail(ss))

RECURSIVE Strings(_, _)
\* All strings over alphabet A of length at most n.
Strings(A, n) ==
    IF n = 0 THEN {<<>>}
    ELSE LET shorter == Strings(A, n - 1)
         IN  shorter \cup {Append(s, c) : s \in shorter, c \in A}

\* s.trim() === '' and friends.
RECURSIVE Trim(_)
Trim(s) ==
    IF s = <<>> THEN s
    ELSE IF Head(s) \in WhiteSpace THEN Trim(Tail(s))
    ELSE IF s[Len(s)] \in WhiteSpace THEN Trim(SubSeq(s, 1, Len(s) - 1))
    ELSE s

\* Does pat occur in s at 0-based offset i, comparing characters exactly?
OccursAt(s, pat, i) ==
    /\ i + Len(pat) <= Len(s)
    /\ \A k \in 1..Len(pat) : s[i + k] = pat[k]

\* String.prototype.indexOf: the first offset of pat in s, or -1.
IndexOf(s, pat) ==
    LET hits == {i \in 0..Len(s) : OccursAt(s, pat, i)}
    IN  IF hits = {} THEN -1
        ELSE CHOOSE i \in hits : \A j \in hits : i <= j

\* String.prototype.includes.
Includes(s, pat) == IndexOf(s, pat) /= -1

RECURSIVE SplitFrom(_, _, _)
\* s.split(sep-class).filter(word => word.length > 0): the maximal runs of
\* characters outside seps, in order.  cur is the run being read.
SplitFrom(s, seps, cur) ==
    IF s = <<>> THEN (IF cur = <<>> THEN <<>> ELSE <<cur>>)
    ELSE IF Head(s) \in seps
         THEN (IF cur = <<>> THEN <<>> ELSE <<cur>>) \o SplitFrom(Tail(s), seps, <<>>)
         ELSE SplitFrom(Tail(s), seps, Append(cur, Head(s)))

\* split(' ').filter(word => word.length > 0)
SplitOnSpace(s) == SplitFrom(s, {" "}, <<>>)

\* split(/\s+/).filter(word => word.length > 0)
SplitOnWhiteSpace(s) == SplitFrom(s, WhiteSpace, <<>>)

RECURSIVE RawSplitFrom(_, _)
\* s.split(' ') with nothing filtered: empty pieces are kept.
RawSplitFrom(s, cur) ==
    IF s = <<>> THEN <<cur>>
    ELSE IF Head(s) = " " THEN <<cur>> \o RawSplitFrom(Tail(s), <<>>)
    ELSE RawSplitFrom(Tail(s), Append(cur, Head(s)))

RawSplitOnSpace(s) == RawSplitFrom(s, <<>>)

(***************************************************************************)
(* normalizeText                                                           *)
(***************************************************************************)
RECURSIVE StripDiacritics(_)
\* text.normalize('NFD').replace(/[U+0300-U+036F]/g, '')
StripDiacritics(s) ==
    IF s = <<>> THEN <<>>
    ELSE SelectSeq(NFDChar(Head(s)), LAMBDA c : ~IsCombining(c))
            \o StripDiacritics(Tail(s))

normalizeText(text) ==
    IF text = <<>> THEN <<>> ELSE ToLowerCase(StripDiacritics(text))

(***************************************************************************)
(* The snippet highlighter (render_search.js).                             *)
(*                                                                         *)
(* Texts and terms of the model hold no "<", ">" or "&", so a text given   *)
(* to the DOM parser is one text node and serialising it gives it back.    *)
(***************************************************************************)
MarkOpen == <<"<", "m", "a", "r", "k", ">">>
MarkClose == <<"<", "/", "m", "a", "r", "k", ">">>
SpanOpen == <<"<", "s", "p", "a", "n", ">">>
SpanClose == <<"<", "/", "s", "p", "a", "n", ">">>

\* Does pat match s at offset i under new RegExp(escaped pat, 'gi')?
OccursAtCI(s, pat, i) ==
    /\ i + Len(pat) <= Len(s)
    /\ \A k \in 1..Len(pat) : ToLowerChar(s[i + k]) = ToLowerChar(pat[k])

RECURSIVE ExecAllFrom(_, _, _)
\* The offsets regex.exec(text) returns in turn, from lastIndex on, for the
\* global case-insensitive regex of the literal pat (pat is not empty).
ExecAllFrom(text, pat, lastIndex) ==
    IF lastIndex + Len(pat) > Len(text) THEN <<>>
    ELSE IF OccursAtCI(text, pat, lastIndex)
         THEN <<lastIndex>> \o ExecAllFrom(text, pat, lastIndex + Len(pat))
         ELSE ExecAllFrom(text, pat, lastIndex + 1)

\* text.match(regex) is not null / regex.test(text).
RegexTest(text, pat) == ExecAllFrom(text, pat, 0) /= <<>>

RECURSIVE ReplaceFrom(_, _, _)
ReplaceFrom(text, pat, i) ==
    IF i >= Len(text) THEN <<>>
    ELSE IF OccursAtCI(text, pat, i)
         THEN MarkOpen \o Substring(text, i, i + Len(pat)) \o MarkClose
                \o ReplaceFrom(text, pat, i + Len(pat))
         ELSE <<text[i + 1]>> \o ReplaceFrom(text, pat, i + 1)

\* text.replace(regex, '<mark>$&</mark>')
MarkAll(text, pat) == ReplaceFrom(text, pat, 0)

\* term.trim().split(/\s+/).filter(word => word.length > 0)
TermWords(term) == SplitOnWhiteSpace(Trim(term))

RECURSIVE MarkWords(_, _)
\* One replace per word of at least 2 characters, each applied to the
\* string the previous one returned.
MarkWords(content, words) ==
    IF words = <<>> THEN content
    ELSE MarkWords(IF Len(Head(words)) < 2 THEN content
                   ELSE MarkAll(content, Head(words)),
                   Tail(words))

\* The text node's content after the loop over the words; the node is
\* replaced by a span holding it when a word matched.
HighlightTextNode(content, words) ==
    LET marked == MarkWords(content, words)
    IN  IF marked /= content THEN SpanOpen \o marked \o SpanClose ELSE content

highlightSearchTerm(text, term) ==
    IF term = <<>> \/ text = <<>> THEN text
    ELSE IF RegexTest(text, term) THEN MarkAll(text, term)
    ELSE HighlightTextNode(text, TermWords(term))

\* The match objects {index, length} of one pattern.
MatchesOf(text, pat) ==
    LET at == ExecAllFrom(text, pat, 0)
    IN  [k \in 1..Len(at) |-> [index |-> at[k], length |-> Len(pat)]]

RECURSIVE WordMatches(_, _)
\* searchWords.forEach: the matches of every word of at least 2 characters.
WordMatches(text, words) ==
    IF words = <<>> THEN <<>>
    ELSE (IF Len(Head(words)) < 2 THEN <<>> ELSE MatchesOf(text, Head(words)))
            \o WordMatches(text, Tail(words))

RECURSIVE InsertByIndex(_, _)
InsertByIndex(sorted, m) ==
    IF sorted = <<>> THEN <<m>>
    ELSE IF m.index < Head(sorted).index THEN <<m>> \o sorted
    ELSE <<Head(sorted)>> \o InsertByIndex(Tail(sorted), m)

RECURSIVE SortByIndex(_)
\* matches.sort((a, b) => a.index - b.index): a stable sort.
SortByIndex(matches) ==
    IF matches = <<>> THEN <<>>
    ELSE InsertByIndex(SortByIndex(SubSeq(matches, 1, Len(matches) - 1)),
                       matches[Len(matches)])

\* Mutant of Max: the first argument is returned whatever the second is.
MaxKeepsFirst(a, b) == a

Max(a, b) == IF a >= b THEN a ELSE b
Min(a, b) == IF a <= b THEN a ELSE b

\* Mutant of IsClose: a match exactly contextLength away is not merged.
IsCloseOffByOne(currentMatch, nextMatch, contextLength) ==
    nextMatch.index < currentMatch.index + currentMatch.length + contextLength

\* The test that lets the next match extend the current one.
IsClose(currentMatch, nextMatch, contextLength) ==
    nextMatch.index <= currentMatch.index + currentMatch.length + contextLength

RECURSIVE MergeFrom(_, _, _)
MergeFrom(currentMatch, rest, contextLength) ==
    IF rest = <<>> THEN <<currentMatch>>
    ELSE LET nextMatch == Head(rest)
         IN  IF IsClose(currentMatch, nextMatch, contextLength)
             THEN MergeFrom([currentMatch EXCEPT !.length =
                                Max(currentMatch.length,
                                    nextMatch.index + nextMatch.length
                                        - currentMatch.index)],
                            Tail(rest), contextLength)
             ELSE <<currentMatch>> \o MergeFrom(nextMatch, Tail(rest), contextLength)

\* The mergedMatches of createSnippetsWithContext (sorted is not empty).
MergeMatches(sorted, contextLength) ==
    MergeFrom(Head(sorted), Tail(sorted), contextLength)

\* Mutant of HighlightSnippet: the whole-phrase test is skipped.
HighlightSnippetWordsOnly(snippet, term) ==
    MarkWords(snippet, TermWords(term))

\* The markup of one window's snippet.
HighlightSnippet(snippet, term) ==
    IF RegexTest(snippet, term) THEN MarkAll(snippet, term)
    ELSE MarkWords(snippet, TermWords(term))

Ellipsis == <<".", ".", ".">>

RECURSIVE SnippetsFrom(_, _, _, _, _, _)
\* mergedMatches.forEach: acc holds result, lastEnd and, for the record, the
\* windows emitted so far.
SnippetsFrom(text, merged, i, term, contextLength, acc) ==
    IF i > Len(merged) THEN acc
    ELSE LET match == merged[i]
             start == Max(0, match.index - contextLength)
             end == Min(Len(text), match.index + match.length + contextLength)
             before == IF start > acc.lastEnd THEN acc.result \o Ellipsis \o <<" ">>
                       ELSE IF i > 1
                            THEN Substring(acc.result, 0, Len(acc.result) - 3)
                            ELSE acc.result
             snippet == Substring(text, start, end)
             highlightedSnippet == HighlightSnippet(snippet, term)
             after == IF end < Len(text)
                      THEN before \o highlightedSnippet \o <<" ">> \o Ellipsis
                      ELSE before \o highlightedSnippet
         IN  SnippetsFrom(text, merged, i + 1, term, contextLength,
                 [result |-> after,
                  lastEnd |-> end,
                  windows |-> Append(acc.windows,
                                 [start |-> start, end |-> end,
                                  lastEnd |-> acc.lastEnd,
                                  html |-> highlightedSnippet])])

\* createSnippetsWithContext, with what it computed on the way.
createSnippetsWithContext(text, matches, term, contextLength) ==
    LET sorted == SortByIndex(matches)
    IN  IF sorted = <<>>
        THEN [path |-> "fallback",
              html |-> Substring(text, 0, contextLength * 2) \o Ellipsis,
              matches |-> sorted, merged |-> <<>>, windows |-> <<>>]
        ELSE LET merged == MergeMatches(sorted, contextLength)
                 done == SnippetsFrom(text, merged, 1, term, contextLength,
                             [result |-> <<>>, lastEnd |-> 0, windows |-> <<>>])
             IN  [path |-> "windows", html |-> done.result, matches |-> sorted,
                  merged |-> merged, windows |-> done.windows]

\* What a call that does no windowing returns, in the same shape.
Unwindowed(path, html) ==
    [path |-> path, html |-> html,
     matches |-> <<>>, merged |-> <<>>, windows |-> <<>>]

highlightWithContext(text, term, contextLength) ==
    IF term = <<>> \/ text = <<>> THEN Unwindowed("empty", text)
    ELSE IF Len(text) <= contextLength * 3
         THEN Unwindowed("short", highlightSearchTerm(text, term))
    ELSE IF RegexTest(text, term)
         THEN createSnippetsWithContext(text, MatchesOf(text, term), term, contextLength)
    ELSE createSnippetsWithContext(text, WordMatches(text, TermWords(term)),
                                   term, contextLength)

(***************************************************************************)
(* Storage.                                                                *)
(*                                                                         *)
(* A store name is the sequence of the parts name.split('_') gives:        *)
(* <<"pli", "sutta">> is pli_sutta, <<"pli", "en", "sutta">> is            *)
(* pli_en_sutta, <<"en">> is the per-language store en.  A store holds a   *)
(* sequence of records, in cursor order.  A record is                      *)
(*   [sutta_ref, title, title_verseindex, verses]                          *)
(* where verses lists, in property order, the (author, verseindex, verse)  *)
(* entries of record.root, record.texts or record.thread_list.  A          *)
(* sutta_ref is the sequence of the parts sutta_ref.split('/') gives.  A   *)
(* missing text (undefined, null) is the empty string <<>>; an author is a *)
(* name, "" when the item carries none.                                    *)
(***************************************************************************)
\* Mutant of rootLanguages: pli is not taken as a root language.
rootLanguagesWithoutPli == {"pra", "san", "lzh"}

rootLanguages == {"pli", "pra", "san", "lzh"}

\* db.tables of initializeRootDatabase, in schema order, for the root
\* language of the model.
RootTables == << <<"pli", "sutta">>, <<"pli", "vinaya">>, <<"pli", "abhidhamma">> >>

\* db.tables of initializeDatabase / db.objectStoreNames: the root tables
\* and the translation tables, for the languages of the model.
AllTables ==
    RootTables \o << <<"pli", "en", "sutta">>, <<"pli", "en", "vinaya">>,
                     <<"pli", "en", "abhidhamma">> >>

\* The per-language stores of the thread_list database.
LanguageStores == {<<"pli">>, <<"en">>}

Stores == {RootTables[k] : k \in DOMAIN RootTables}
            \cup {AllTables[k] : k \in DOMAIN AllTables}
            \cup LanguageStores

NoRecords == [st \in Stores |-> <<>>]

\* A score, kept exact: num / den with den > 0.
Score(num, den) == [num |-> num, den |-> den]
ScoreLess(a, b) == a.num * b.den < b.num * a.den
ScoreLeq(a, b) == a.num * b.den <= b.num * a.den

\* A verse that is no string (a number, an object): one token that no
\* string holds.
NotAString == <<"not a string">>

\* The variant of the test that leaves out typeof.
HasVerse(entry) == entry.verse /= <<>>

\* verseObj && verseObj.verse && typeof verseObj.verse === 'string'
HasVerseText(entry) == entry.verse /= <<>> /\ entry.verse /= NotAString

\* The entries of the records of a store, in iteration order, each with the
\* key of its record.
RECURSIVE EntriesOf(_)
EntriesOf(records) ==
    IF records = <<>> THEN <<>>
    ELSE LET record == Head(records)
         IN  [k \in DOMAIN record.verses |->
                 [sutta_ref |-> record.sutta_ref, title |-> record.title,
                  author |-> record.verses[k].author,
                  verseindex |-> record.verses[k].verseindex,
                  verse |-> record.verses[k].verse]]
             \o EntriesOf(Tail(records))

(***************************************************************************)
(* The positional search: rootLanguageSearch and the Dexie                 *)
(* languageAwareSearch.                                                    *)
(***************************************************************************)
\* collection.each of a root table: one pushed verse per root entry that
\* has verse text.
FlattenRootTable(db, storeName) ==
    LET entries == SelectSeq(EntriesOf(db[storeName]), HasVerseText)
    IN  [k \in DOMAIN entries |->
            [url_key |-> entries[k].sutta_ref,
             verseindex |-> entries[k].verseindex,
             verse |-> entries[k].verse,
             normalized_verse |-> normalizeText(entries[k].verse),
             store |-> storeName]]

\* collection.each of a translation table.
FlattenTranslationTable(db, storeName) ==
    LET entries == SelectSeq(EntriesOf(db[storeName]), HasVerseText)
    IN  [k \in DOMAIN entries |->
            [url_key |-> entries[k].sutta_ref,
             verseindex |-> entries[k].verseindex,
             verse |-> entries[k].verse,
             normalized_verse |-> normalizeText(entries[k].verse),
             author |-> entries[k].author,
             store |-> storeName]]

\* searchWords.every(word => normalizedVerse.includes(word))
ContainsEveryWord(normalizedVerse, searchWords) ==
    \A k \in DOMAIN searchWords : Includes(normalizedVerse, searchWords[k])

RECURSIVE SumOfPositions(_, _)
\* totalPosition: the sum of indexOf(word) over the words that occur.
SumOfPositions(normalizedVerse, searchWords) ==
    IF searchWords = <<>> THEN 0
    ELSE (IF IndexOf(normalizedVerse, Head(searchWords)) /= -1
          THEN IndexOf(normalizedVerse, Head(searchWords)) ELSE 0)
         + SumOfPositions(normalizedVerse, Tail(searchWords))

\* matchCount: the number of words that occur.
CountOfMatches(normalizedVerse, searchWords) ==
    Cardinality({k \in DOMAIN searchWords :
                    IndexOf(normalizedVerse, searchWords[k]) /= -1})

\* score: -0.5 when the phrase occurs, plus
\* (totalPosition / matchCount) / normalizedVerse.length when a word occurs;
\* the sum is kept as one exact fraction.
PositionalScore(normalizedVerse, normalizedSearchTerm, searchWords) ==
    LET matchCount == CountOfMatches(normalizedVerse, searchWords)
        totalPosition == SumOfPositions(normalizedVerse, searchWords)
        bonus == IF Includes(normalizedVerse, normalizedSearchTerm) THEN 1 ELSE 0
    IN  IF matchCount > 0
        THEN Score(2 * totalPosition - bonus * matchCount * Len(normalizedVerse),
                   2 * matchCount * Len(normalizedVerse))
        ELSE Score(-bonus, 2)

RECURSIVE InsertByScore(_, _)
InsertByScore(sorted, r) ==
    IF sorted = <<>> THEN <<r>>
    ELSE IF ScoreLess(r.score, Head(sorted).score) THEN <<r>> \o sorted
    ELSE <<Head(sorted)>> \o InsertByScore(Tail(sorted), r)

RECURSIVE SortByScore(_)
\* results.sort((a, b) => a.score - b.score): a stable sort.
SortByScore(results) ==
    IF results = <<>> THEN <<>>
    ELSE InsertByScore(SortByScore(SubSeq(results, 1, Len(results) - 1)),
                       results[Len(results)])

\* The filter, the scores and the sort both positional searches apply to
\* the verses they collected.
FilterScoreSort(allVerses, normalizedSearchTerm, searchWords) ==
    IF searchWords = <<>> THEN allVerses
    ELSE LET matching == SelectSeq(allVerses,
                 LAMBDA verse : ContainsEveryWord(verse.normalized_verse, searchWords))
             scored == [k \in DOMAIN matching |->
                 [url_key |-> matching[k].url_key,
                  verseindex |-> matching[k].verseindex,
                  verse |-> matching[k].verse,
                  normalized_verse |-> matching[k].normalized_verse,
                  store |-> matching[k].store,
                  score |-> PositionalScore(matching[k].normalized_verse,
                                            normalizedSearchTerm, searchWords)]]
         IN  SortByScore(scored)

\* What a search call returns and what it did to storage on the way:
\* storage lists "open", the stores read and "close", in order.
Returned(results, storage) == [results |-> results, storage |-> storage]

rootLanguageSearch(db, searchTerm, rootLang) ==
    LET normalizedSearchTerm == normalizeText(searchTerm)
        searchWords == SplitOnSpace(normalizedSearchTerm)
        storeNames == SelectSeq(RootTables,
                          LAMBDA name : Len(name) = 2 /\ name[1] = rootLang)
        allVerses == Concat([k \in DOMAIN storeNames |->
                                FlattenRootTable(db, storeNames[k])])
    IN  IF storeNames = <<>> THEN Returned(<<>>, <<>>)
        ELSE Returned(FilterScoreSort(allVerses, normalizedSearchTerm, searchWords),
                      <<"open">> \o storeNames \o <<"close">>)

\* languageAwareSearch of dexie-search.js.
dexieLanguageAwareSearch(db, searchTerm, langCode) ==
    LET normalizedSearchTerm == normalizeText(searchTerm)
        searchWords == SplitOnSpace(normalizedSearchTerm)
        storeNames == SelectSeq(AllTables,
                          LAMBDA name : Len(name) = 3 /\ name[2] = langCode)
        allVerses == Concat([k \in DOMAIN storeNames |->
                                FlattenTranslationTable(db, storeNames[k])])
    IN  IF storeNames = <<>> THEN Returned(<<>>, <<>>)
        ELSE Returned(FilterScoreSort(allVerses, normalizedSearchTerm, searchWords),
                      <<"open">> \o storeNames \o <<"close">>)

(***************************************************************************)
(* The literal search: literalSearchInIndexedDB.                           *)
(***************************************************************************)
\* The verses collected from the thread_list items of a language store.
FlattenThreadItems(db, storeName) ==
    LET entries == SelectSeq(EntriesOf(db[storeName]), HasVerseText)
    IN  [k \in DOMAIN entries |->
            [url_key |-> entries[k].sutta_ref,
             verseindex |-> entries[k].verseindex,
             verse |-> entries[k].verse,
             normalizedVerse |-> normalizeText(entries[k].verse),
             author |-> IF entries[k].author = "" THEN "unknown"
                        ELSE entries[k].author,
             title |-> entries[k].title]]

RECURSIVE InsertByLength(_, _)
InsertByLength(sorted, r) ==
    IF sorted = <<>> THEN <<r>>
    ELSE IF Len(r.normalizedVerse) < Len(Head(sorted).normalizedVerse)
         THEN <<r>> \o sorted
    ELSE <<Head(sorted)>> \o InsertByLength(Tail(sorted), r)

RECURSIVE SortByLength(_)
\* results.sort((a, b) => a.normalizedVerse.length - b.normalizedVerse.length)
SortByLength(results) ==
    IF results = <<>> THEN <<>>
    ELSE InsertByLength(SortByLength(SubSeq(results, 1, Len(results) - 1)),
                        results[Len(results)])

literalSearchInIndexedDB(db, searchTerm, storeName) ==
    LET normalizedSearchTerm == normalizeText(searchTerm)
        searchWords == SplitOnWhiteSpace(normalizedSearchTerm)
        allVerses == FlattenThreadItems(db, <<storeName>>)
        results ==
            IF Len(searchWords) = 1
            THEN SelectSeq(allVerses,
                     LAMBDA item : Includes(item.normalizedVerse, searchWords[1]))
            ELSE SelectSeq(allVerses,
                     LAMBDA item : ContainsEveryWord(item.normalizedVerse, searchWords))
        sorted == SortByLength(results)
    IN  Returned([k \in DOMAIN sorted |->
                     [url_key |-> sorted[k].url_key,
                      verseindex |-> sorted[k].verseindex,
                      verse |-> sorted[k].verse,
                      author |-> sorted[k].author,
                      title |-> sorted[k].title,
                      score |-> Score(0, 1)]],
                 <<"open", <<storeName>>, "close">>)

(***************************************************************************)
(* The fuzzy search: searchInIndexedDB and the languageAwareSearch of      *)
(* search_indexeddb.js.                                                    *)
(*                                                                         *)
(* Fuse is not modelled by its matching: fuse.search may return any of the *)
(* indexed verses, each at most once, with any score up to the threshold,  *)
(* sorted by score and, at equal score, by index.  A candidate choice      *)
(* gives each index of the collection a score level, or NotCandidate.      *)
(***************************************************************************)
NotCandidate == -1

FuseSearch(allVerses, candidates) ==
    LET hits == SelectSeq([k \in DOMAIN allVerses |->
                              [item |-> allVerses[k], refIndex |-> k,
                               level |-> candidates[k]]],
                          LAMBDA hit : hit.level /= NotCandidate)
    IN  SortByScore([k \in DOMAIN hits |->
                        [item |-> hits[k].item, refIndex |-> hits[k].refIndex,
                         score |-> Score(hits[k].level, 10)]])

\* searchWords.every(word => verse.includes(word)) with
\* searchWords = searchTerm.split(' ').map(word => word.toLowerCase())
ContainsEveryRawWord(verse, searchTerm) ==
    LET searchWords == RawSplitOnSpace(searchTerm)
    IN  \A k \in DOMAIN searchWords :
            Includes(ToLowerCase(verse), ToLowerCase(searchWords[k]))

\* The post-filter of fuse.search's results.
PostFilter(searchResults, searchTerm) ==
    IF Includes(searchTerm, <<" ">>)
    THEN SelectSeq(searchResults,
             LAMBDA result : ContainsEveryRawWord(result.item.verse, searchTerm))
    ELSE searchResults

\* The verses collected from the author-keyed thread_list items of a
\* language store.
FlattenAuthorThreads(db, storeName) ==
    LET entries == SelectSeq(EntriesOf(db[storeName]), HasVerseText)
    IN  [k \in DOMAIN entries |->
            [url_key |-> entries[k].sutta_ref,
             verseindex |-> entries[k].verseindex,
             verse |-> normalizeText(entries[k].verse),
             author |-> entries[k].author,
             title |-> normalizeText(entries[k].title)]]

searchInIndexedDB(db, searchTerm, storeName, candidates) ==
    IF <<storeName>> \notin LanguageStores THEN Returned(<<>>, <<"open">>)
    ELSE
    LET allVerses == FlattenAuthorThreads(db, <<storeName>>)
        results == PostFilter(FuseSearch(allVerses, candidates), searchTerm)
    IN  Returned([k \in DOMAIN results |->
                     [url_key |-> results[k].item.url_key,
                      verseindex |-> results[k].item.verseindex,
                      verse |-> results[k].item.verse,
                      author |-> results[k].item.author,
                      title |-> results[k].item.title,
                      score |-> results[k].score]],
                 <<"open", <<storeName>>, "close">>)

\* The verses collected from the translator-keyed texts of a translation
\* table, the verse text normalized.
FlattenTexts(db, storeName) ==
    LET entries == SelectSeq(EntriesOf(db[storeName]), HasVerseText)
    IN  [k \in DOMAIN entries |->
            [url_key |-> entries[k].sutta_ref,
             verseindex |-> entries[k].verseindex,
             verse |-> normalizeText(entries[k].verse),
             author |-> entries[k].author,
             store |-> storeName]]

\* languageAwareSearch of search_indexeddb.js.
fuseLanguageAwareSearch(db, searchTerm, langCode, candidates) ==
    LET relevantStores == SelectSeq(AllTables,
                              LAMBDA store : Len(store) = 3 /\ store[2] = langCode)
        allVerses == Concat([k \in DOMAIN relevantStores |->
                                FlattenTexts(db, relevantStores[k])])
        results == PostFilter(FuseSearch(allVerses, candidates), searchTerm)
    IN  IF relevantStores = <<>> THEN Returned(<<>>, <<"open">>)
        ELSE Returned([k \in DOMAIN results |->
                          [url_key |-> results[k].item.url_key,
                           verseindex |-> results[k].item.verseindex,
                           verse |-> results[k].item.verse,
                           author |-> results[k].item.author,
                           store |-> results[k].item.store,
                           score |-> results[k].score]],
                      <<"open">> \o relevantStores \o <<"close">>)

(***************************************************************************)
(* Title enrichment: fetchTitleFromRootLanguage and                        *)
(* enhancedSearchInIndexedDB.                                              *)
(***************************************************************************)
\* store.get(suttaRef): the records of the store with that key.
RecordsAt(db, storeName, suttaRef) ==
    IF storeName \in LanguageStores
    THEN SelectSeq(db[storeName], LAMBDA record : record.sutta_ref = suttaRef)
    ELSE <<>>

\* The title the lookup resolves to, <<>> when it resolves to none.
fetchTitleFromRootLanguage(db, suttaRef, langCode) ==
    LET rootCode == suttaRef[1]
        rootRecords == RecordsAt(db, <<rootCode>>, suttaRef)
        targetRecords == RecordsAt(db, <<langCode>>, suttaRef)
    IN  IF langCode \in rootLanguages THEN <<>>
        ELSE IF rootRecords = <<>> THEN <<>>
        ELSE IF rootRecords[1].title_verseindex = "" THEN <<>>
        ELSE IF targetRecords = <<>> THEN <<>>
        ELSE LET titled == SelectSeq(targetRecords[1].verses,
                     LAMBDA thread :
                         /\ thread.verseindex = rootRecords[1].title_verseindex
                         /\ thread.verse /= <<>>)
             IN  IF titled = <<>> THEN <<>> ELSE titled[1].verse

\* What the lookup does to storage.
TitleLookupStorage(db, suttaRef, langCode) ==
    LET rootCode == suttaRef[1]
        rootRecords == RecordsAt(db, <<rootCode>>, suttaRef)
    IN  IF langCode \in rootLanguages THEN <<>>
        ELSE IF <<rootCode>> \notin LanguageStores THEN <<"open">>
        ELSE IF rootRecords = <<>> THEN <<"open", <<rootCode>> >>
        ELSE IF rootRecords[1].title_verseindex = "" THEN <<"open", <<rootCode>> >>
        ELSE IF RecordsAt(db, <<langCode>>, suttaRef) = <<>>
             THEN <<"open", <<rootCode>>, <<langCode>> >>
        ELSE <<"open", <<rootCode>>, <<langCode>>, "close">>

RECURSIVE EnrichFrom(_, _, _, _, _)
\* The variant of the loop that sets the fetched title whether or not one
\* was found.
EnrichFromFetchedTitleOnly(db, results, k, processedSuttaRefs, storeName) ==
    IF k > Len(results) THEN <<>>
    ELSE LET suttaRef == results[k].url_key
             title == fetchTitleFromRootLanguage(db, suttaRef, storeName)
             same == SelectSeq(results, LAMBDA item : item.url_key = suttaRef)
         IN  IF suttaRef \in processedSuttaRefs
             THEN EnrichFrom(db, results, k + 1, processedSuttaRefs, storeName)
             ELSE [j \in DOMAIN same |-> [same[j] EXCEPT !.title = title]]
                  \o EnrichFrom(db, results, k + 1,
                                processedSuttaRefs \cup {suttaRef}, storeName)

\* The loop over results: at the first result of each sutta_ref, every
\* result of that sutta_ref is pushed, with the fetched title or its own.
EnrichFrom(db, results, k, processedSuttaRefs, storeName) ==
    IF k > Len(results) THEN <<>>
    ELSE LET suttaRef == results[k].url_key
             title == fetchTitleFromRootLanguage(db, suttaRef, storeName)
             same == SelectSeq(results, LAMBDA item : item.url_key = suttaRef)
         IN  IF suttaRef \in processedSuttaRefs
             THEN EnrichFrom(db, results, k + 1, processedSuttaRefs, storeName)
             ELSE [j \in DOMAIN same |->
                      [same[j] EXCEPT !.title = IF title /= <<>> THEN title ELSE @]]
                  \o EnrichFrom(db, results, k + 1,
                                processedSuttaRefs \cup {suttaRef}, storeName)

\* The sutta_refs of a result list, in order of first occurrence.
RECURSIVE FirstSuttaRefs(_, _)
\* The variant that never consults the set of processed sutta_refs.
EverySuttaRef(results, seen) ==
    [k \in DOMAIN results |-> results[k].url_key]

FirstSuttaRefs(results, seen) ==
    IF results = <<>> THEN <<>>
    ELSE IF Head(results).url_key \in seen THEN FirstSuttaRefs(Tail(results), seen)
    ELSE <<Head(results).url_key>>
         \o FirstSuttaRefs(Tail(results), seen \cup {Head(results).url_key})

enhancedSearchInIndexedDB(db, searchTerm, storeName, candidates) ==
    LET base == searchInIndexedDB(db, searchTerm, storeName, candidates)
        results == base.results
        enrichedResults == EnrichFrom(db, results, 1, {}, storeName)
        fetched == FirstSuttaRefs(results, {})
    IN  IF storeName \in rootLanguages THEN base
        ELSE Returned(IF enrichedResults /= <<>> THEN enrichedResults ELSE results,
                      base.storage
                      \o Concat([k \in DOMAIN fetched |->
                                    TitleLookupStorage(db, fetched[k], storeName)]))

\* languageAwareSearch of the dispatching generation: the guard, then the
\* literal search for a root language and the enriched fuzzy search for any
\* other.
languageAwareSearch(db, searchTerm, langCode, candidates) ==
    IF searchTerm = <<>> \/ Trim(searchTerm) = <<>> THEN Returned(<<>>, <<>>)
    ELSE IF langCode \in rootLanguages
         THEN literalSearchInIndexedDB(db, searchTerm, langCode)
         ELSE enhancedSearchInIndexedDB(db, searchTerm, langCode, candidates)

(***************************************************************************)
(* The searches when something fails.                                      *)
(*                                                                         *)
(* faults names what is wrong with the page and its storage: storage that  *)
(* cannot be opened, a library that is not loaded (Dexie, idb or Fuse), a  *)
(* store whose iteration throws at its record number at, and the search    *)
(* scripts that are loaded: whether rootLanguageSearch is defined, and     *)
(* which generation of languageAwareSearch is.                             *)
(***************************************************************************)
NoFaults ==
    [storage |-> "ok", missing |-> "none", bad |-> <<>>, at |-> 1,
     rootSearch |-> TRUE, generation |-> "dispatching"]

\* An async function that returned: its promise, the functions that ran,
\* and what it did to storage.
Resolved(fn, returned) ==
    [settled |-> "resolved", ran |-> <<fn>>, results |-> returned.results,
     storage |-> returned.storage]

\* An async function whose body threw after doing storage to storage.
Threw(fn, storage) ==
    [settled |-> "rejected", ran |-> <<fn>>, results |-> <<>>,
     storage |-> storage]

\* Mutant of Catch: the error is thrown again.
CatchRethrows(outcome) == outcome

\* try { ... } catch (error) { console.error(...); return []; }
Catch(outcome) ==
    IF outcome.settled = "rejected"
    THEN [outcome EXCEPT !.settled = "resolved", !.results = <<>>]
    ELSE outcome

\* A function that awaits another one and returns or throws what it does.
Awaiting(fn, outcome) == [outcome EXCEPT !.ran = <<fn>> \o @]

\* What the iteration of each store delivers before it throws: of the store
\* bad the records before record number at, of any other store all of them.
Delivered(db, bad, at) ==
    [st \in DOMAIN db |->
        IF st = bad THEN SubSeq(db[st], 1, Min(at - 1, Len(db[st])))
        ELSE db[st]]

\* rootLanguageSearch: each store is iterated inside its own try/catch, and
\* the verses pushed before the iteration threw stay in allVerses.
rootLanguageSearchUnder(faults, db, searchTerm, rootLang) ==
    LET storeNames == SelectSeq(RootTables,
                          LAMBDA name : Len(name) = 2 /\ name[1] = rootLang)
    IN  Catch(
            IF faults.missing = "Dexie" THEN Threw("rootLanguageSearch", <<>>)
            ELSE IF storeNames = <<>>
                 THEN Resolved("rootLanguageSearch", Returned(<<>>, <<>>))
            ELSE IF faults.storage = "unavailable"
                 THEN Resolved("rootLanguageSearch",
                          Returned(rootLanguageSearch(NoRecords, searchTerm,
                                                      rootLang).results,
                                   <<"close">>))
            ELSE Resolved("rootLanguageSearch",
                     rootLanguageSearch(Delivered(db, faults.bad, faults.at),
                                        searchTerm, rootLang)))

\* languageAwareSearch of dexie-search.js: inside the try/catch of a store,
\* toArray reads every record before the iteration pushes any verse.
dexieLanguageAwareSearchUnder(faults, db, searchTerm, langCode) ==
    LET storeNames == SelectSeq(AllTables,
                          LAMBDA name : Len(name) = 3 /\ name[2] = langCode)
    IN  Catch(
            IF faults.missing = "Dexie" THEN Threw("dexieLanguageAwareSearch", <<>>)
            ELSE IF storeNames = <<>>
                 THEN Resolved("dexieLanguageAwareSearch", Returned(<<>>, <<>>))
            ELSE IF faults.storage = "unavailable"
                 THEN Resolved("dexieLanguageAwareSearch",
                          Returned(dexieLanguageAwareSearch(NoRecords, searchTerm,
                                                            langCode).results,
                                   <<"close">>))
            ELSE Resolved("dexieLanguageAwareSearch",
                     dexieLanguageAwareSearch(Delivered(db, faults.bad, 1),
                                              searchTerm, langCode)))

literalSearchInIndexedDBUnder(faults, db, searchTerm, storeName) ==
    Catch(
        IF faults.missing = "idb" \/ faults.storage = "unavailable"
        THEN Threw("literalSearchInIndexedDB", <<>>)
        ELSE IF faults.bad = <<storeName>>
             THEN Threw("literalSearchInIndexedDB", <<"open", <<storeName>> >>)
        ELSE Resolved("literalSearchInIndexedDB",
                 literalSearchInIndexedDB(db, searchTerm, storeName)))

\* Does searchInIndexedDB end in its catch block?
SearchInIndexedDBFails(faults, storeName) ==
    \/ faults.missing \in {"idb", "Fuse"}
    \/ faults.storage = "unavailable"
    \/ faults.bad = <<storeName>>

searchInIndexedDBUnder(faults, db, searchTerm, storeName, candidates) ==
    Catch(
        IF faults.missing = "idb" \/ faults.storage = "unavailable"
        THEN Threw("searchInIndexedDB", <<>>)
        ELSE IF SearchInIndexedDBFails(faults, storeName)
             THEN Threw("searchInIndexedDB", <<"open", <<storeName>> >>)
        ELSE Resolved("searchInIndexedDB",
                 searchInIndexedDB(db, searchTerm, storeName, candidates)))

\* The stores of a list up to and including the store bad.
RECURSIVE UpTo(_, _)
UpTo(storeNames, bad) ==
    IF storeNames = <<>> THEN <<>>
    ELSE IF Head(storeNames) = bad THEN <<bad>>
    ELSE <<Head(storeNames)>> \o UpTo(Tail(storeNames), bad)

\* languageAwareSearch of search_indexeddb.js: one try/catch around the
\* whole function, none around the iteration of a store.
fuseLanguageAwareSearchUnder(faults, db, searchTerm, langCode, candidates) ==
    LET relevantStores == SelectSeq(AllTables,
                              LAMBDA store : Len(store) = 3 /\ store[2] = langCode)
    IN  Catch(
            IF faults.missing = "idb" \/ faults.storage = "unavailable"
            THEN Threw("fuseLanguageAwareSearch", <<>>)
            ELSE IF relevantStores = <<>>
                 THEN Resolved("fuseLanguageAwareSearch", Returned(<<>>, <<"open">>))
            ELSE IF \E k \in DOMAIN relevantStores : relevantStores[k] = faults.bad
                 THEN Threw("fuseLanguageAwareSearch",
                            <<"open">> \o UpTo(relevantStores, faults.bad))
            ELSE IF faults.missing = "Fuse"
                 THEN Threw("fuseLanguageAwareSearch", <<"open">> \o relevantStores)
            ELSE Resolved("fuseLanguageAwareSearch",
                     fuseLanguageAwareSearch(db, searchTerm, langCode, candidates)))

\* enhancedSearchInIndexedDB: a base search that failed has resolved to [],
\* and no title is looked up.  A title lookup in a store that throws ends in
\* the catch block of fetchTitleFromRootLanguage, which returns null as it
\* does for a record that is not there.
enhancedSearchInIndexedDBUnder(faults, db, searchTerm, storeName, candidates) ==
    Catch(
        IF SearchInIndexedDBFails(faults, storeName)
        THEN Awaiting("enhancedSearchInIndexedDB",
                 searchInIndexedDBUnder(faults, db, searchTerm, storeName,
                                        candidates))
        ELSE [Resolved("enhancedSearchInIndexedDB",
                  enhancedSearchInIndexedDB(Delivered(db, faults.bad, 1),
                                            searchTerm, storeName, candidates))
              EXCEPT !.ran = @ \o <<"searchInIndexedDB">>])

\* languageAwareSearch of the dispatching generation.
languageAwareSearchUnder(faults, db, searchTerm, langCode, candidates) ==
    IF searchTerm = <<>> \/ Trim(searchTerm) = <<>>
    THEN Resolved("languageAwareSearch", Returned(<<>>, <<>>))
    ELSE IF langCode \in rootLanguages
         THEN Awaiting("languageAwareSearch",
                  literalSearchInIndexedDBUnder(faults, db, searchTerm, langCode))
         ELSE Awaiting("languageAwareSearch",
                  enhancedSearchInIndexedDBUnder(faults, db, searchTerm, langCode,
                                                 candidates))

\* The global languageAwareSearch: the one of the script loaded last.
GlobalLanguageAwareSearch(faults, db, searchTerm, langCode, candidates) ==
    CASE faults.generation = "dexie" ->
            dexieLanguageAwareSearchUnder(faults, db, searchTerm, langCode)
      [] faults.generation = "fuse" ->
            fuseLanguageAwareSearchUnder(faults, db, searchTerm, langCode,
                                         candidates)
      [] faults.generation = "dispatching" ->
            languageAwareSearchUnder(faults, db, searchTerm, langCode, candidates)

\* executeSearch of render_search.js: rootLanguageSearch for a root
\* language, the global languageAwareSearch for any other, and an Error
\* when the function is not defined.
executeSearch(faults, db, searchTerm, langCode, candidates) ==
    IF langCode \in rootLanguages
    THEN IF ~faults.rootSearch THEN Threw("executeSearch", <<>>)
         ELSE Awaiting("executeSearch",
                  rootLanguageSearchUnder(faults, db, searchTerm, langCode))
    ELSE IF faults.generation = "none" THEN Threw("executeSearch", <<>>)
         ELSE Awaiting("executeSearch",
                  GlobalLanguageAwareSearch(faults, db, searchTerm, langCode,
                                            candidates))

(***************************************************************************)
(* Rendering: renderResults.                                               *)
(***************************************************************************)
\* highlightWithContext(text, searchTerm, contextLength = 50)
DefaultContextLength == 50

\* The category of a result: from the last part of its store name when it
\* carries one, from its url_key otherwise.
CategoryOf(result) ==
    IF "store" \in DOMAIN result /\ result.store /= <<>>
    THEN IF Len(result.store) >= 2 /\ result.store[Len(result.store)] = "vinaya"
         THEN "Vinaya"
         ELSE IF Len(result.store) >= 2
                 /\ result.store[Len(result.store)] = "abhidhamma"
         THEN "Abhidhamma"
         ELSE "Sutta"
    ELSE IF \E k \in DOMAIN result.url_key : result.url_key[k] = "vinaya"
         THEN "Vinaya"
         ELSE IF \E k \in DOMAIN result.url_key : result.url_key[k] = "abhidhamma"
         THEN "Abhidhamma"
         ELSE "Sutta"

\* Mutant of Unseen: nothing is ever taken as seen.
UnseenAlways(result, seenVerseIndices) == TRUE

\* !seenVerseIndices.has(result.verseindex)
Unseen(result, seenVerseIndices) == result.verseindex \notin seenVerseIndices

RECURSIVE KeepFirst(_, _)
\* The forEach over results: a result is kept unless its verseindex was
\* seen before.
KeepFirst(results, seenVerseIndices) ==
    IF results = <<>> THEN <<>>
    ELSE IF Unseen(Head(results), seenVerseIndices)
         THEN <<Head(results)>>
              \o KeepFirst(Tail(results),
                           seenVerseIndices \cup {Head(results).verseindex})
         ELSE KeepFirst(Tail(results), seenVerseIndices)

\* The paragraph of one result: the link and the highlighted verse.
Paragraph(result, searchTerm, lang_code) ==
    [href |-> [lang |-> IF lang_code \in rootLanguages THEN "en" ELSE lang_code,
               url_key |-> IF result.url_key /= <<>> /\ result.url_key[1] = ""
                           THEN Tail(result.url_key) ELSE result.url_key,
               fragment |-> result.verseindex],
     text |-> result.verseindex,
     html |-> highlightWithContext(result.verse, searchTerm,
                                   DefaultContextLength).html,
     result |-> result]

\* What renderResults leaves in the results container.
renderResults(results, searchTerm, lang_code) ==
    LET kept == KeepFirst(results, {})
        categories ==
            [category \in {"Sutta", "Vinaya", "Abhidhamma"} |->
                SelectSeq(kept, LAMBDA result : CategoryOf(result) = category)]
        ordered == categories["Sutta"] \o categories["Vinaya"]
                       \o categories["Abhidhamma"]
    IN  IF results = <<>>
        THEN [message |-> "No results found", totalUniqueResults |-> 0,
              counts |-> [category \in {"Sutta", "Vinaya", "Abhidhamma"} |-> 0],
              paragraphs |-> <<>>]
        ELSE [message |-> "Found",
              totalUniqueResults |-> Len(categories["Sutta"])
                                       + Len(categories["Vinaya"])
                                       + Len(categories["Abhidhamma"]),
              counts |-> [category \in {"Sutta", "Vinaya", "Abhidhamma"} |->
                             Len(categories[category])],
              paragraphs |-> [k \in DOMAIN ordered |->
                                 Paragraph(ordered[k], searchTerm, lang_code)]]

(***************************************************************************)
(* Rendering the threads of a text (threads.js).                           *)
(*                                                                         *)
(* An item of a thread_list is null, a string or an object.  An object is  *)
(* read through its own verseindex and verse ("" and <<>> when it has      *)
(* none) and through its other properties, the author keys, in the order   *)
(* for-in visits them.  The value at an author key is null, a string or a  *)
(* thread object with a verseindex and a verse.                            *)
(***************************************************************************)
Value(kind, verseindex, verse) ==
    [kind |-> kind, verseindex |-> verseindex, verse |-> verse]

Item(kind, verseindex, verse, authors) ==
    [kind |-> kind, verseindex |-> verseindex, verse |-> verse,
     authors |-> authors]

NullItem == Item("null", "", <<>>, <<>>)

\* No thread_root was found.
NoThread == [found |-> FALSE, verseindex |-> "", verse |-> <<>>, authorName |-> ""]

\* threadItem[author] && typeof threadItem[author] === 'object' &&
\* threadItem[author].verseindex && threadItem[author].verse
IsThread(value) ==
    value.kind = "object" /\ value.verseindex /= "" /\ value.verse /= <<>>

RECURSIVE FirstAuthorThread(_, _)
\* The variant of the loop over the author keys that does not break.
LastAuthorThread(authors, k) ==
    IF k > Len(authors) THEN NoThread
    ELSE LET later == FirstAuthorThread(authors, k + 1)
         IN  IF later.found THEN later
             ELSE IF IsThread(authors[k].value)
                  THEN [found |-> TRUE,
                        verseindex |-> authors[k].value.verseindex,
                        verse |-> authors[k].value.verse,
                        authorName |-> authors[k].author]
                  ELSE NoThread

\* The loop over the author keys, from key number k: it breaks at the first
\* key that holds a thread.
FirstAuthorThread(authors, k) ==
    IF k > Len(authors) THEN NoThread
    ELSE IF IsThread(authors[k].value)
         THEN [found |-> TRUE,
               verseindex |-> authors[k].value.verseindex,
               verse |-> authors[k].value.verse,
               authorName |-> authors[k].author]
         ELSE FirstAuthorThread(authors, k + 1)

\* thread_root and authorName for a thread item.
ThreadRoot(threadItem) ==
    IF threadItem.kind /= "object" THEN NoThread
    ELSE IF threadItem.verseindex /= "" /\ threadItem.verse /= <<>>
         THEN [found |-> TRUE, verseindex |-> threadItem.verseindex,
               verse |-> threadItem.verse, authorName |-> ""]
         ELSE FirstAuthorThread(threadItem.authors, 1)

Span(className, textContent) ==
    [tag |-> "span", className |-> className, textContent |-> textContent]

Br == [tag |-> "br", className |-> "", textContent |-> <<>>]

\* Reading thread.verseindex of a null author value throws.
TranslationThrows(transThread) ==
    /\ transThread.kind = "object"
    /\ ~(transThread.verseindex /= "" /\ transThread.verse /= <<>>)
    /\ \E k \in DOMAIN transThread.authors :
          transThread.authors[k].value.kind = "null"

\* The spans of the translations of a root thread.
TranslationSpans(transThread, thread_root) ==
    IF transThread.kind /= "object" THEN <<>>
    ELSE IF transThread.verseindex /= "" /\ transThread.verse /= <<>>
         THEN IF /\ transThread.verseindex = thread_root.verseindex
                 /\ Trim(transThread.verse) /= <<>>
              THEN <<Span("translator", transThread.verse), Br>>
              ELSE <<>>
         ELSE Concat([k \in DOMAIN transThread.authors |->
                  LET thread == transThread.authors[k].value
                  IN  IF /\ thread.kind = "object"
                         /\ thread.verseindex = thread_root.verseindex
                         /\ thread.verse /= <<>>
                         /\ Trim(thread.verse) /= <<>>
                      THEN <<Span(transThread.authors[k].author, thread.verse),
                             Br>>
                      ELSE <<>>])

\* The paragraph of a root thread.
ThreadParagraph(root, trans, same, index, thread_root) ==
    LET withTranslation ==
            ~same /\ trans.found /\ index <= Len(trans.thread_list)
    IN  [id |-> thread_root.verseindex,
         children |->
             <<Span(IF root.title_verseindex /= ""
                       /\ thread_root.verseindex = root.title_verseindex
                    THEN "root big-bold" ELSE "root",
                    thread_root.verse)>>
             \o (IF withTranslation THEN <<Br>> ELSE <<>>)
             \o (IF withTranslation
                 THEN TranslationSpans(trans.thread_list[index], thread_root)
                 ELSE <<>>)]

(***************************************************************************)
(* State.                                                                  *)
(***************************************************************************)
VARIABLES
    db,         \* storage: for every store, its records in cursor order
    sPc,        \* search: "idle" before a call, "done" after it, "off"
    sCall,      \* search: the function called and its arguments
    sRet,       \* search: what the call returned and did to storage
    rResults,   \* rendering: the result array handed to renderResults
    rTerm,      \* rendering: the search term
    rLang,      \* rendering: the page's lang_code
    rPc,        \* rendering: "ready" before the call, "done" after it, "off"
    rOut,       \* rendering: what renderResults left in the container
    hText,      \* highlighter: the verse text handed to highlightWithContext
    hTerm,      \* highlighter: the search term
    hCtx,       \* highlighter: contextLength
    hPc,        \* highlighter: "ready" before the call, "done" after it, "off"
    hOut,       \* highlighter: what the call returned and computed
    nX,         \* normalization: a string handed to normalizeText
    nY,         \* normalization: another string handed to normalizeText
    nPc,        \* normalization: "ready" before the calls, "done" after, "off"
    nOut,       \* normalization: what the calls returned
    faults,     \* what is wrong with the page and its storage
    requests,   \* the page: the search requests dispatched, in order
    container,  \* the page: what the results container shows
    rootData,   \* threads: the record of the text in its root language
    transData,  \* threads: the record of its translation, if there is one
    sameLanguage, \* threads: is the text shown in its own root language
    threadIndex, \* threads: the item of the thread_list forEach is at
    paragraphs, \* threads: the paragraphs appended to the container
    tPc,        \* threads: "rendering", "done", "threw", "off"
    fStore,     \* flattening: the partition that was iterated
    allVerses,  \* flattening: the verse records collected from it
    fPc,        \* flattening: "ready" before the iteration, "done", "off"
    runs,       \* concurrency: the searches in progress, each with its locals
    tables,     \* loader: for every file of the list, has its table records
    localStorage, \* loader: buddhistTextsLoaded and buddhistTextsLoadedVersion
    loader,     \* loader: the locals of the loader script of this page load
    loadedEvents, \* loader: the buddhist-texts-loaded events of this page load
    sessionFlag, \* activation: is buddhist-texts-db-loaded 'true' in sessionStorage
    overlay,    \* activation: db-loading-overlay "shown", "hidden" or "absent"
    timers,     \* activation: the callbacks setTimeout holds
    activation, \* activation: how far the page and its loader have come
    searchEvents \* activation: the buddhist-texts-search events for the URL term

svars == <<db, sPc, sCall, sRet>>
rvars == <<rResults, rTerm, rLang, rPc, rOut>>
hvars == <<hText, hTerm, hCtx, hPc, hOut>>
nvars == <<nX, nY, nPc, nOut>>
pvars == <<faults, requests, container>>
tvars == <<rootData, transData, sameLanguage, threadIndex, paragraphs, tPc>>
fvars == <<fStore, allVerses, fPc>>
lvars == <<tables, localStorage, loader, loadedEvents>>
avars == <<sessionFlag, overlay, timers, activation, searchEvents>>
evars == <<tvars, fvars, runs, lvars, avars>>
vars == <<svars, rvars, hvars, nvars, pvars, evars>>

\* What a step of one part of the model leaves alone.
notSearch == <<rvars, hvars, nvars, pvars, evars>>
notRender == <<svars, hvars, nvars, pvars, evars>>
notHighlight == <<svars, rvars, nvars, pvars, evars>>
notNormalize == <<svars, rvars, hvars, pvars, evars>>
notPage == <<sPc, sCall, sRet, rvars, hvars, nvars, evars>>
notThreads == <<avars, svars, rvars, hvars, nvars, pvars, fvars, runs, lvars>>
notFlatten == <<avars, sPc, sCall, sRet, rvars, hvars, nvars, pvars, tvars, runs, lvars>>
notRuns == <<avars, sPc, sCall, sRet, rvars, hvars, nvars, pvars, tvars, fvars, lvars>>
notLoader == <<svars, rvars, hvars, nvars, pvars, tvars, fvars, runs, avars>>
notActivation == <<svars, rvars, hvars, nvars, pvars, tvars, fvars, runs, lvars>>

NoCall == [fn |-> "none", searchTerm |-> <<>>, langCode |-> "none"]
NoRender == [message |-> "none", totalUniqueResults |-> 0,
             counts |-> [category \in {"Sutta", "Vinaya", "Abhidhamma"} |-> 0],
             paragraphs |-> <<>>]

\* The parts of the state a specification does not exercise.
SearchOff ==
    db = NoRecords /\ sPc = "off" /\ sCall = NoCall /\ sRet = Returned(<<>>, <<>>)
RenderOff ==
    rResults = <<>> /\ rTerm = <<>> /\ rLang = "none" /\ rPc = "off"
        /\ rOut = NoRender
HighlightOff ==
    hText = <<>> /\ hTerm = <<>> /\ hCtx = 1 /\ hPc = "off"
        /\ hOut = Unwindowed("none", <<>>)
NoNormalized == [x |-> <<>>, y |-> <<>>, xx |-> <<>>]
NormalizeOff ==
    nX = <<>> /\ nY = <<>> /\ nPc = "off" /\ nOut = NoNormalized

\* The results container before any search.
NoContainer == [shows |-> "nothing", request |-> 0, total |-> 0]
FaultsOff == faults = NoFaults
PageOff == requests = <<>> /\ container = NoContainer

\* No record: getLanguageData resolved to undefined or null.
NoData == [found |-> FALSE, title_verseindex |-> "", thread_list |-> <<>>]
ThreadsOff ==
    /\ rootData = NoData /\ transData = NoData /\ sameLanguage = FALSE
    /\ threadIndex = 1 /\ paragraphs = <<>> /\ tPc = "off"
FlattenOff == fStore = <<>> /\ allVerses = <<>> /\ fPc = "off"
RunsOff == runs = <<>>

\* The loader before it runs.
NoLoader ==
    [pc |-> "off", load |-> 0, loadedVersion |-> 0, gate |-> "none",
     currentFileIndex |-> 0,
     successfulLoads |-> 0, failedLoads |-> 0, processed |-> <<>>,
     puts |-> <<>>]
LoaderOff ==
    /\ tables = <<>> /\ localStorage = [loaded |-> FALSE, loadedVersion |-> 0]
    /\ loader = NoLoader /\ loadedEvents = <<>>

\* The page before activate_search.js runs.
NoActivation ==
    [script |-> "off", dom |-> "loading", listening |-> FALSE,
     searchParam |-> <<>>, loader |-> "silent", dispatched |-> FALSE,
     checks |-> 0]
ActivationOff ==
    /\ sessionFlag = FALSE /\ overlay = "absent" /\ timers = {}
    /\ activation = NoActivation /\ searchEvents = <<>>

\* Every part of the state but the named one is idle; the searches under
\* faults and the page use the storage as well.
RestOff(part) ==
    /\ part \in {"search", "faults", "page", "flatten", "runs"} \/ SearchOff
    /\ part \in {"faults", "page"} \/ FaultsOff
    /\ part = "page" \/ PageOff
    /\ part = "render" \/ RenderOff
    /\ part = "highlight" \/ HighlightOff
    /\ part = "normalize" \/ NormalizeOff
    /\ part = "threads" \/ ThreadsOff
    /\ part = "flatten" \/ FlattenOff
    /\ part = "runs" \/ RunsOff
    /\ part = "loader" \/ LoaderOff
    /\ part = "activation" \/ ActivationOff

(***************************************************************************)
(* The highlighter as a state machine: one call of highlightWithContext on *)
(* a verse and a term, as renderResults makes for every result.            *)
(***************************************************************************)
HTextAlphabet == {"a", "r", " "}
HTermAlphabet == {"a", "r", " ", "A"}
HLetters == {"a", "r"}

\* Two words of two letters each, one space between them.
TwoWordTerms ==
    {<<a, b, " ", c, d>> : a \in HLetters, b \in HLetters,
                           c \in HLetters, d \in HLetters}

HTexts == Strings(HTextAlphabet, MaxTextLen)
HTerms == Strings(HTermAlphabet, MaxTermLen) \cup TwoWordTerms

HInit ==
    /\ hText \in HTexts
    /\ hTerm \in HTerms
    /\ hCtx \in 1..MaxContextLength
    /\ hPc = "ready"
    /\ hOut = Unwindowed("none", <<>>)
    /\ RestOff("highlight")

CallHighlightWithContext ==
    /\ hPc = "ready"
    /\ hOut' = highlightWithContext(hText, hTerm, hCtx)
    /\ hPc' = "done"
    /\ UNCHANGED <<hText, hTerm, hCtx, notHighlight>>

HNext == CallHighlightWithContext

SpecHighlight == HInit /\ [][HNext]_vars

(***************************************************************************)
(* The same call on longer texts, where two windows can overlap: texts of  *)
(* up to MaxWindowTextLen characters, a term of one or two letters, and a  *)
(* contextLength up to MaxWindowContext.                                   *)
(***************************************************************************)
MaxWindowTextLen == 7
MaxWindowContext == 2

WInit ==
    /\ hText \in Strings({"a", "x"}, MaxWindowTextLen)
    /\ hTerm \in {<<"a">>, <<"a", "a">>}
    /\ hCtx \in 1..MaxWindowContext
    /\ hPc = "ready"
    /\ hOut = Unwindowed("none", <<>>)
    /\ RestOff("highlight")

SpecWindows == WInit /\ [][HNext]_vars

(***************************************************************************)
(* The literal and the positional search as a state machine: a corpus of   *)
(* two verses, one per document, present in the root tables, in the        *)
(* translation tables and in the per-language stores, and one search call. *)
(***************************************************************************)
MaxFiller == 4
MaxCoreLen == 3

RECURSIVE Filler(_)
\* n characters that no search term contains.
Filler(n) == IF n = 0 THEN <<>> ELSE <<"x">> \o Filler(n - 1)

\* The verse texts: none, or words and spaces, at the start of the verse or
\* after MaxFiller other characters.
VerseTexts ==
    {Filler(n) \o core : n \in {0, MaxFiller},
                         core \in Strings({"a", " "}, MaxCoreLen) \ {<<>>}}
        \cup {<<>>}

SearchTerms == Strings({"a", "A", " ", "\t"}, MaxTermLen)
RootCodes == {"pli"}
TranslationCodes == {"en"}

Doc(n) == IF n = 1 THEN <<"pli", "dn1">> ELSE <<"pli", "dn2">>

Thread(author, verseindex, verse) ==
    [author |-> author, verseindex |-> verseindex, verse |-> verse]

Record(suttaRef, titleVerseIndex, verses) ==
    [sutta_ref |-> suttaRef, title |-> <<>>,
     title_verseindex |-> titleVerseIndex, verses |-> verses]

\* The two-verse corpus, as every database holds it.
TwoVerses(v1, v2) ==
    LET root1 == Record(Doc(1), "", <<Thread("", "dn1:1", v1)>>)
        root2 == Record(Doc(2), "", <<Thread("", "dn2:1", v2)>>)
        trans1 == Record(Doc(1), "", <<Thread("sujato", "dn1:1", v1)>>)
        trans2 == Record(Doc(2), "", <<Thread("sujato", "dn2:1", v2)>>)
    IN  [NoRecords EXCEPT ![<<"pli", "sutta">>] = <<root1>>,
                          ![<<"pli", "vinaya">>] = <<root2>>,
                          ![<<"pli", "en", "sutta">>] = <<trans1>>,
                          ![<<"pli", "en", "vinaya">>] = <<trans2>>,
                          ![<<"pli">>] = <<root1, root2>>,
                          ![<<"en">>] = <<trans1, trans2>>]

MaxVerses == 3
MaxFuseLevel == 1

\* What fuse.search may make of a collection of up to MaxVerses verses.
CandidateChoices == [1..MaxVerses -> {NotCandidate} \cup 0..MaxFuseLevel]
NoCandidates == [k \in 1..MaxVerses |-> NotCandidate]

Init ==
    /\ \E v1 \in VerseTexts, v2 \in VerseTexts : db = TwoVerses(v1, v2)
    /\ sPc = "idle"
    /\ sCall = NoCall
    /\ sRet = Returned(<<>>, <<>>)
    /\ RestOff("search")

Called(fn, searchTerm, langCode) ==
    [fn |-> fn, searchTerm |-> searchTerm, langCode |-> langCode]

\* A call whose fuzzy engine answered with candidates.
CalledWith(fn, searchTerm, langCode, candidates) ==
    [fn |-> fn, searchTerm |-> searchTerm, langCode |-> langCode,
     candidates |-> candidates]

CallRootLanguageSearch ==
    /\ sPc = "idle"
    /\ \E searchTerm \in SearchTerms, rootLang \in RootCodes \cup TranslationCodes :
          /\ sCall' = Called("rootLanguageSearch", searchTerm, rootLang)
          /\ sRet' = rootLanguageSearch(db, searchTerm, rootLang)
    /\ sPc' = "done"
    /\ UNCHANGED <<db, notSearch>>

CallDexieLanguageAwareSearch ==
    /\ sPc = "idle"
    /\ \E searchTerm \in SearchTerms, langCode \in RootCodes \cup TranslationCodes :
          /\ sCall' = Called("dexieLanguageAwareSearch", searchTerm, langCode)
          /\ sRet' = dexieLanguageAwareSearch(db, searchTerm, langCode)
    /\ sPc' = "done"
    /\ UNCHANGED <<db, notSearch>>

\* A call of the dispatching languageAwareSearch with a language code of
\* langCodes, the fuzzy engine answering with one of choices.
CallLanguageAwareSearch(langCodes, choices) ==
    /\ sPc = "idle"
    /\ \E searchTerm \in SearchTerms, langCode \in langCodes,
          candidates \in choices :
          /\ sCall' = CalledWith("languageAwareSearch", searchTerm, langCode,
                               candidates)
          /\ sRet' = languageAwareSearch(db, searchTerm, langCode, candidates)
    /\ sPc' = "done"
    /\ UNCHANGED <<db, notSearch>>

Next ==
    \/ CallRootLanguageSearch
    \/ CallDexieLanguageAwareSearch
    \/ CallLanguageAwareSearch(RootCodes, {NoCandidates})

Spec == Init /\ [][Next]_vars

(***************************************************************************)
(* The fuzzy search as a state machine: a corpus of three translated       *)
(* verses, the first and the third of one document and the second of       *)
(* another, and one search call.  The root store resolves the title of the *)
(* first document to its first verse and holds nothing for the second.     *)
(***************************************************************************)
MaxFuzzyLen == 1

FuzzyTexts == Strings({"a", "b"}, MaxFuzzyLen)

\* The terms of the fuzzy searches: those of the literal searches and the
\* ones that carry a diacritic.
FuzzyTerms == SearchTerms \cup Strings({"a", AAcute, " "}, MaxTermLen)

ThreeVerses(v1, v2, v3) ==
    LET trans1 == Record(Doc(1), "", <<Thread("sujato", "dn1:1", v1),
                                       Thread("sujato", "dn1:2", v3)>>)
        trans2 == Record(Doc(2), "", <<Thread("sujato", "dn2:1", v2)>>)
        root1 == Record(Doc(1), "dn1:1", <<Thread("", "dn1:1", <<"a">>)>>)
    IN  [NoRecords EXCEPT ![<<"pli", "en", "sutta">>] = <<trans1, trans2>>,
                          ![<<"pli">>] = <<root1>>,
                          ![<<"en">>] = <<trans1, trans2>>]

FInit ==
    /\ \E v1 \in FuzzyTexts, v2 \in FuzzyTexts, v3 \in FuzzyTexts :
          db = ThreeVerses(v1, v2, v3)
    /\ sPc = "idle"
    /\ sCall = NoCall
    /\ sRet = Returned(<<>>, <<>>)
    /\ RestOff("search")

CallSearchInIndexedDB ==
    /\ sPc = "idle"
    /\ \E searchTerm \in FuzzyTerms, storeName \in TranslationCodes,
          candidates \in CandidateChoices :
          /\ sCall' = CalledWith("searchInIndexedDB", searchTerm, storeName,
                               candidates)
          /\ sRet' = searchInIndexedDB(db, searchTerm, storeName, candidates)
    /\ sPc' = "done"
    /\ UNCHANGED <<db, notSearch>>

CallFuseLanguageAwareSearch ==
    /\ sPc = "idle"
    /\ \E searchTerm \in FuzzyTerms, langCode \in TranslationCodes,
          candidates \in CandidateChoices :
          /\ sCall' = CalledWith("fuseLanguageAwareSearch", searchTerm, langCode,
                               candidates)
          /\ sRet' = fuseLanguageAwareSearch(db, searchTerm, langCode, candidates)
    /\ sPc' = "done"
    /\ UNCHANGED <<db, notSearch>>

CallEnhancedSearchInIndexedDB ==
    /\ sPc = "idle"
    /\ \E searchTerm \in FuzzyTerms, storeName \in TranslationCodes,
          candidates \in CandidateChoices :
          /\ sCall' = CalledWith("enhancedSearchInIndexedDB", searchTerm, storeName,
                               candidates)
          /\ sRet' = enhancedSearchInIndexedDB(db, searchTerm, storeName, candidates)
    /\ sPc' = "done"
    /\ UNCHANGED <<db, notSearch>>

FNext ==
    \/ CallSearchInIndexedDB
    \/ CallFuseLanguageAwareSearch
    \/ CallEnhancedSearchInIndexedDB
    \/ CallLanguageAwareSearch(TranslationCodes, CandidateChoices)

SpecFuzzy == FInit /\ [][FNext]_vars

(***************************************************************************)
(* Rendering as a state machine: one call of renderResults on a result     *)
(* array of up to MaxResults results.                                      *)
(***************************************************************************)
MaxResults == 3

\* A result as the searches produce them: with a store name (the table
\* searches) or without one (the thread_list searches).
RenderItems ==
    {[verseindex |-> verseindex, url_key |-> url_key, store |-> store,
      verse |-> <<"a">>] :
        verseindex \in {"dn1:1", "dn1:2"},
        url_key \in {<<"pli", "dn1">>, <<"pli", "abhidhamma", "ds1">>},
        store \in {<<>>, <<"pli", "sutta">>, <<"pli", "en", "vinaya">>}}

RECURSIVE ResultArrays(_)
ResultArrays(n) ==
    IF n = 0 THEN {<<>>}
    ELSE LET shorter == ResultArrays(n - 1)
         IN  shorter \cup {Append(results, item) :
                              results \in shorter, item \in RenderItems}

RInit ==
    /\ rResults \in ResultArrays(MaxResults)
    /\ rTerm = <<"a">>
    /\ rLang \in RootCodes \cup TranslationCodes
    /\ rPc = "ready"
    /\ rOut = NoRender
    /\ RestOff("render")

CallRenderResults ==
    /\ rPc = "ready"
    /\ rOut' = renderResults(rResults, rTerm, rLang)
    /\ rPc' = "done"
    /\ UNCHANGED <<rResults, rTerm, rLang, notRender>>

RNext == CallRenderResults

SpecRender == RInit /\ [][RNext]_vars

(***************************************************************************)
(* normalizeText as a state machine: two strings of up to MaxNormLen       *)
(* characters, normalizeText applied to each and to the result of the      *)
(* first.                                                                  *)
(***************************************************************************)
MaxNormLen == 2

NormAlphabet == {"a", "A", AAcute, AAcuteUpper, CombiningAcute}

NInit ==
    /\ nX \in Strings(NormAlphabet, MaxNormLen)
    /\ nY \in Strings(NormAlphabet, MaxNormLen)
    /\ nPc = "ready"
    /\ nOut = NoNormalized
    /\ RestOff("normalize")

CallNormalizeText ==
    /\ nPc = "ready"
    /\ nOut' = [x |-> normalizeText(nX), y |-> normalizeText(nY),
                xx |-> normalizeText(normalizeText(nX))]
    /\ nPc' = "done"
    /\ UNCHANGED <<nX, nY, notNormalize>>

NNext == CallNormalizeText

SpecNormalize == NInit /\ [][NNext]_vars

(***************************************************************************)
(* Reading a highlighter output back: its text and its emphasis elements.  *)
(***************************************************************************)
RECURSIVE TextOf(_)
\* The markup with every <mark> and </mark> tag deleted, read left to right.
TextOf(html) ==
    IF html = <<>> THEN <<>>
    ELSE IF OccursAt(html, MarkOpen, 0)
         THEN TextOf(Substring(html, Len(MarkOpen), Len(html)))
    ELSE IF OccursAt(html, MarkClose, 0)
         THEN TextOf(Substring(html, Len(MarkClose), Len(html)))
    ELSE <<Head(html)>> \o TextOf(Tail(html))

RECURSIVE TagsOf(_)
\* The <mark> ("open") and </mark> ("close") tags of the markup, in order.
TagsOf(html) ==
    IF html = <<>> THEN <<>>
    ELSE IF OccursAt(html, MarkOpen, 0)
         THEN <<"open">> \o TagsOf(Substring(html, Len(MarkOpen), Len(html)))
    ELSE IF OccursAt(html, MarkClose, 0)
         THEN <<"close">> \o TagsOf(Substring(html, Len(MarkClose), Len(html)))
    ELSE TagsOf(Tail(html))

\* Emphasis elements are not nested and every one is closed.
FlatMarks(html) ==
    LET tags == TagsOf(html)
    IN  /\ Len(tags) % 2 = 0
        /\ \A k \in 1..Len(tags) :
              tags[k] = (IF k % 2 = 1 THEN "open" ELSE "close")

RECURSIVE MarkedFrom(_, _, _)
\* The contents of the emphasis elements of the markup, in order.
MarkedFrom(html, inMark, cur) ==
    IF html = <<>> THEN <<>>
    ELSE IF OccursAt(html, MarkOpen, 0)
         THEN MarkedFrom(Substring(html, Len(MarkOpen), Len(html)), TRUE, <<>>)
    ELSE IF OccursAt(html, MarkClose, 0)
         THEN (IF inMark THEN <<cur>> ELSE <<>>)
                \o MarkedFrom(Substring(html, Len(MarkClose), Len(html)), FALSE, <<>>)
    ELSE MarkedFrom(Tail(html), inMark,
                    IF inMark THEN Append(cur, Head(html)) ELSE cur)

Marked(html) == MarkedFrom(html, FALSE, <<>>)

\* The markup inside the span that replaced a text node, if there is one.
Unspan(html) ==
    IF /\ Len(html) >= Len(SpanOpen) + Len(SpanClose)
       /\ OccursAt(html, SpanOpen, 0)
       /\ OccursAt(html, SpanClose, Len(html) - Len(SpanClose))
    THEN Substring(html, Len(SpanOpen), Len(html) - Len(SpanClose))
    ELSE html

RECURSIVE CountPhrase(_, _)
\* How many times pat occurs in s, ignoring case, counting from the left
\* and never counting a character twice.
CountPhrase(s, pat) ==
    IF Len(s) < Len(pat) THEN 0
    ELSE IF OccursAtCI(s, pat, 0)
         THEN 1 + CountPhrase(Substring(s, Len(pat), Len(s)), pat)
         ELSE CountPhrase(Tail(s), pat)

RECURSIVE SumLen(_)
SumLen(ss) == IF ss = <<>> THEN 0 ELSE Len(Head(ss)) + SumLen(Tail(ss))

\* The pieces of source text the call highlighted, each with its markup: the
\* whole text on the short path, the windows on the long path.
HPieces ==
    CASE hOut.path = "short" ->
            {[src |-> hText, html |-> Unspan(hOut.html)]}
      [] hOut.path = "windows" ->
            {[src |-> Substring(hText, hOut.windows[k].start, hOut.windows[k].end),
              html |-> hOut.windows[k].html] : k \in DOMAIN hOut.windows}
      [] OTHER -> {}

PhraseFound ==
    /\ hText /= <<>>
    /\ hTerm /= <<>>
    /\ \E i \in 0..Len(hText) : OccursAtCI(hText, hTerm, i)

SpanEnd(m) == m.index + m.length
SpanInside(m, g) == g.index <= m.index /\ SpanEnd(m) <= SpanEnd(g)

(***************************************************************************)
(* Claims about the highlighter.                                           *)
(***************************************************************************)

\* C8: when the phrase occurs in the text (ignoring case), every piece the
\* highlighter emits (the short text, or each context window) has exactly
\* one emphasis element per occurrence of the phrase in it, every emphasis
\* element holds the whole phrase and none an individual word, and all
\* occurrences of the phrase in the text are wrapped.
C8_PhraseHighlightedAsOneUnit ==
    (hPc = "done" /\ PhraseFound) =>
        /\ hOut.path \in {"short", "windows"}
        /\ \A p \in HPieces :
              /\ FlatMarks(p.html)
              /\ TextOf(p.html) = p.src
              /\ Len(Marked(p.html)) = CountPhrase(p.src, hTerm)
              /\ \A k \in DOMAIN Marked(p.html) :
                    ToLowerCase(Marked(p.html)[k]) = ToLowerCase(hTerm)
        /\ Len(Marked(Unspan(hOut.html))) = CountPhrase(hText, hTerm)

\* C8 witness: a two-word phrase found in a long text and highlighted in a
\* context window.
C8_Witness ==
    /\ hPc = "done"
    /\ PhraseFound
    /\ hOut.path = "windows"
    /\ Len(TermWords(hTerm)) = 2
    /\ Len(Marked(hOut.html)) >= 1

\* C9 (as claimed): highlighting only inserts emphasis tags around text:
\* in every piece the emphasis elements are well formed and not nested, and
\* deleting the emphasis tags gives back the source text of the piece.
C9_OnlyInsertsEmphasisTags ==
    hPc = "done" =>
        \A p \in HPieces : FlatMarks(p.html) /\ TextOf(p.html) = p.src

\* C10: the merged spans are sorted by start; consecutive ones are more than
\* contextLength apart; every match lies inside exactly one merged span;
\* each merged span is the smallest span covering the matches it absorbed;
\* two matches at distance <= contextLength are in the same merged span.
C10_MergedSpans ==
    (hPc = "done" /\ hOut.path = "windows") =>
        LET ms == hOut.matches
            mg == hOut.merged
            Absorbed(k) == {i \in DOMAIN ms : SpanInside(ms[i], mg[k])}
        IN  /\ mg /= <<>>
            /\ \A k \in 1..(Len(mg) - 1) :
                  /\ mg[k].index < mg[k + 1].index
                  /\ mg[k + 1].index - SpanEnd(mg[k]) > hCtx
            /\ \A i \in DOMAIN ms :
                  Cardinality({k \in DOMAIN mg : SpanInside(ms[i], mg[k])}) = 1
            /\ \A k \in DOMAIN mg :
                  /\ Absorbed(k) /= {}
                  /\ \E i \in Absorbed(k) : ms[i].index = mg[k].index
                  /\ \E i \in Absorbed(k) : SpanEnd(ms[i]) = SpanEnd(mg[k])
            /\ \A i \in DOMAIN ms : \A j \in DOMAIN ms :
                  (/\ ms[i].index <= ms[j].index
                   /\ ms[j].index <= SpanEnd(ms[i]) + hCtx)
                  => \E k \in DOMAIN mg :
                        SpanInside(ms[i], mg[k]) /\ SpanInside(ms[j], mg[k])

\* C10 witness: three matches, two of them merged and the third kept apart.
C10_Witness ==
    /\ hPc = "done"
    /\ hOut.path = "windows"
    /\ Len(hOut.matches) = 3
    /\ Len(hOut.merged) = 2

(***************************************************************************)
(* Properties of the searches.                                             *)
(***************************************************************************)
\* The words of a query: the whitespace-split tokens of its normalized term.
WordsOfQuery(searchTerm) == SplitOnWhiteSpace(normalizeText(searchTerm))

\* The call made was a search of a root language.
RootSearchDone ==
    /\ sPc = "done"
    /\ sCall.fn \in {"rootLanguageSearch", "languageAwareSearch"}
    /\ sCall.langCode \in rootLanguages

\* The call made was a search of a translation language through the fuzzy
\* engine.
FuzzySearchDone ==
    /\ sPc = "done"
    /\ sCall.fn \in {"searchInIndexedDB", "fuseLanguageAwareSearch",
                     "enhancedSearchInIndexedDB", "languageAwareSearch"}
    /\ sCall.langCode \notin rootLanguages

\* The call made was a search that scores by position.
PositionalSearchDone ==
    /\ sPc = "done"
    /\ sCall.fn \in {"rootLanguageSearch", "dexieLanguageAwareSearch"}
    /\ SplitOnSpace(normalizeText(sCall.searchTerm)) /= <<>>

\* The verses of the root language that have text, as (verseindex, verse).
RootVerses(langCode) ==
    LET entries == SelectSeq(EntriesOf(db[<<langCode>>]), HasVerseText)
    IN  {<<entries[k].verseindex, entries[k].verse>> : k \in DOMAIN entries}

ReturnedVerses ==
    {<<sRet.results[k].verseindex, sRet.results[k].verse>> :
        k \in DOMAIN sRet.results}

\* C1: a root-language search with a non-empty query returns exactly the
\* verses whose normalized text contains every whitespace-split word of the
\* normalized query.
C1_RootSearchReturnsExactlyTheMatches ==
    (RootSearchDone /\ WordsOfQuery(sCall.searchTerm) /= <<>>)
        => ReturnedVerses =
              {v \in RootVerses(sCall.langCode) :
                  ContainsEveryWord(normalizeText(v[2]),
                                    WordsOfQuery(sCall.searchTerm))}

\* C2: every result of a translation-language search for a query of two or
\* more words contains every word of the query in its normalized verse
\* text, whatever candidates the fuzzy engine returned.
C2_FuzzyResultsContainEveryWord ==
    (FuzzySearchDone /\ Len(WordsOfQuery(sCall.searchTerm)) >= 2)
        => \A k \in DOMAIN sRet.results :
              ContainsEveryWord(normalizeText(sRet.results[k].verse),
                                WordsOfQuery(sCall.searchTerm))

\* C3: of two verses returned with a positional score, one that contains
\* the normalized phrase verbatim has a strictly lower score than one that
\* contains the words only scattered.
C3_PhraseScoresBelowScattered ==
    PositionalSearchDone
        => \A i \in DOMAIN sRet.results, j \in DOMAIN sRet.results :
              (/\ Includes(sRet.results[i].normalized_verse,
                           normalizeText(sCall.searchTerm))
               /\ ~Includes(sRet.results[j].normalized_verse,
                            normalizeText(sCall.searchTerm)))
                  => ScoreLess(sRet.results[i].score, sRet.results[j].score)

\* C4: the list a root-language search returns is in ascending order of
\* the length of the verses' normalized text.
C4_RootResultsAscendingByLength ==
    RootSearchDone
        => \A k \in 1..(Len(sRet.results) - 1) :
              Len(normalizeText(sRet.results[k].verse))
                  <= Len(normalizeText(sRet.results[k + 1].verse))

\* C5: the array a translation-language search returns after title
\* enrichment is in non-decreasing order of score.
C5_EnrichedResultsAscendingByScore ==
    (FuzzySearchDone
     /\ sCall.fn \in {"enhancedSearchInIndexedDB", "languageAwareSearch"})
        => \A k \in 1..(Len(sRet.results) - 1) :
              ScoreLeq(sRet.results[k].score, sRet.results[k + 1].score)

\* C6: a search whose term is empty or only whitespace returns an empty
\* array and performs no storage operation.
C6_EmptyTermTouchesNothing ==
    (sPc = "done" /\ Trim(sCall.searchTerm) = <<>>)
        => sRet.results = <<>> /\ sRet.storage = <<>>

(***************************************************************************)
(* Properties of rendering.                                                *)
(***************************************************************************)
VerseIndicesOf(results) == {results[k].verseindex : k \in DOMAIN results}

\* The first result of the array with the verseindex.
FirstWith(results, verseindex) ==
    results[CHOOSE k \in DOMAIN results :
                /\ results[k].verseindex = verseindex
                /\ \A j \in 1..(k - 1) : results[j].verseindex /= verseindex]

\* C7: for every verseindex of the input exactly one result is rendered,
\* the first of the input with that verseindex, and the reported number of
\* unique results is the number of distinct verseindex values.
C7_RenderedOncePerVerseIndex ==
    rPc = "done"
        => /\ \A verseindex \in VerseIndicesOf(rResults) :
                 /\ Cardinality({k \in DOMAIN rOut.paragraphs :
                        rOut.paragraphs[k].result.verseindex = verseindex}) = 1
                 /\ \A k \in DOMAIN rOut.paragraphs :
                        rOut.paragraphs[k].result.verseindex = verseindex
                            => rOut.paragraphs[k].result
                                   = FirstWith(rResults, verseindex)
           /\ Len(rOut.paragraphs) = Cardinality(VerseIndicesOf(rResults))
           /\ rOut.totalUniqueResults = Cardinality(VerseIndicesOf(rResults))

\* C7 witness: three results, the first and the third with one verseindex
\* but from different stores, rendered as two.
C7_Witness ==
    /\ rPc = "done"
    /\ Len(rResults) = 3
    /\ rResults[1].verseindex = rResults[3].verseindex
    /\ rResults[1].store /= rResults[3].store
    /\ rResults[2].verseindex /= rResults[1].verseindex
    /\ rOut.totalUniqueResults = 2

(***************************************************************************)
(* Properties of the context windows.                                      *)
(***************************************************************************)
\* A window as the claim has it emitted: an ellipsis marker before it when
\* it does not start where the previous window ended (at offset 0 for the
\* first), its markup, an ellipsis marker after it when it ends before the
\* end of the text.
WindowWithMarkers(w, text) ==
    (IF w.start /= w.lastEnd THEN Ellipsis \o <<" ">> ELSE <<>>)
        \o w.html
        \o (IF w.end < Len(text) THEN <<" ">> \o Ellipsis ELSE <<>>)

\* C11: the output of the long-text path is its windows in order, each
\* with an ellipsis marker before it exactly when it does not start at the
\* end of the previous window and one after it exactly when it does not
\* reach the end of the text.
C11_EllipsisMarkersAroundWindows ==
    (hPc = "done" /\ hOut.path = "windows")
        => hOut.html = Concat([k \in DOMAIN hOut.windows |->
                                  WindowWithMarkers(hOut.windows[k], hText)])

RECURSIVE StripMarks(_)
\* The markup with its emphasis tags deleted, and again those the deletion
\* uncovers, until none is left.
StripMarks(html) ==
    IF TextOf(html) = html THEN html ELSE StripMarks(TextOf(html))

\* The call took the long-text path with one match, more than contextLength
\* characters from the start of the text.
SingleLateMatch ==
    /\ hPc = "done"
    /\ hOut.path = "windows"
    /\ Len(hOut.matches) = 1
    /\ hOut.matches[1].index > hCtx

\* C12: with a single match of length L more than contextLength characters
\* from the start of a long text, the snippet is one window of at most
\* L + 2 * contextLength characters of the text, it begins with an ellipsis
\* marker, and it does not hold the whole text.
C12_SingleMatchSnippetBounded ==
    SingleLateMatch
        => /\ Len(hOut.windows) = 1
           /\ LET w == hOut.windows[1]
                  snippet == Substring(hText, w.start, w.end)
              IN  /\ w.html = HighlightSnippet(snippet, hTerm)
                  /\ StripMarks(w.html) = snippet
                  /\ Len(snippet) <= hOut.matches[1].length + 2 * hCtx
                  /\ Len(snippet) < Len(hText)
                  /\ Substring(hOut.html, 0, 4) = Ellipsis \o <<" ">>
                  /\ hOut.html = WindowWithMarkers(w, hText)
           /\ ~Includes(hOut.html, hText)

\* C12 witness: one match in the last two characters of a text of five,
\* shown in a window that reaches the end of the text.
C12_Witness ==
    /\ SingleLateMatch
    /\ Len(hText) = 5
    /\ hOut.matches[1].index >= 3
    /\ hOut.windows[1].end = Len(hText)

(***************************************************************************)
(* Properties of normalizeText.                                            *)
(***************************************************************************)
\* The letter a character stands for once case and accent are set aside,
\* read off the character table.
BaseLetter(c) ==
    IF c \in {"a", "A", AAcute, AAcuteUpper} THEN "a" ELSE c

\* The letters of a string, its combining marks left out.
Skeleton(s) ==
    LET letters == SelectSeq(s, LAMBDA c : c /= CombiningAcute)
    IN  [k \in DOMAIN letters |-> BaseLetter(letters[k])]

\* C13: normalizeText is idempotent, gives the empty string for the empty
\* (or missing) input, and gives one result for two strings that differ
\* only in letter case or in combining diacritics.
C13_NormalizeIdempotentAndInsensitive ==
    nPc = "done"
        => /\ nOut.xx = nOut.x
           /\ nX = <<>> => nOut.x = <<>>
           /\ Skeleton(nX) = Skeleton(nY) => nOut.x = nOut.y

\* C13 witness: a precomposed upper-case letter and a plain letter followed
\* by a combining mark, normalized to the same string.
C13_Witness ==
    /\ nPc = "done"
    /\ nX = <<AAcuteUpper>>
    /\ nY = <<"a", CombiningAcute>>
    /\ nOut.x = <<"a">>
    /\ nOut.y = <<"a">>

(***************************************************************************)
(* The searches under faults as a state machine: the two-verse corpus, one *)
(* fault (or none) fixed from the start, and one call of a search function *)
(* or of executeSearch.                                                    *)
(***************************************************************************)
MaxThrowAt == 2

FaultTexts == {<<>>, <<"a">>, <<"b">>}
FaultTerms == {<<>>, <<" ">>, <<"a">>}
FaultCandidates == {NoCandidates, [k \in 1..MaxVerses |-> 0]}
Generations == {"dexie", "fuse", "dispatching"}
Libraries == {"Dexie", "idb", "Fuse"}
BadStores == {<<"pli", "sutta">>, <<"pli", "vinaya">>, <<"pli", "en", "sutta">>,
              <<"pli", "en", "vinaya">>, <<"pli">>, <<"en">>}

\* No fault or one fault, under each generation of languageAwareSearch, and
\* the pages that lack a search script.
FaultSet ==
    LET loaded(g) == [NoFaults EXCEPT !.generation = g]
    IN  {loaded(g) : g \in Generations}
        \cup {[loaded(g) EXCEPT !.storage = "unavailable"] : g \in Generations}
        \cup {[loaded(g) EXCEPT !.missing = library] :
                 g \in Generations, library \in Libraries}
        \cup {[loaded(g) EXCEPT !.bad = store, !.at = at] :
                 g \in Generations, store \in BadStores, at \in 1..MaxThrowAt}
        \cup {[NoFaults EXCEPT !.rootSearch = FALSE], loaded("none")}

FaultsInit ==
    /\ \E v1 \in FaultTexts, v2 \in FaultTexts : db = TwoVerses(v1, v2)
    /\ faults \in FaultSet
    /\ sPc = "idle"
    /\ sCall = NoCall
    /\ sRet = Returned(<<>>, <<>>)
    /\ RestOff("faults")

\* One call under the faults of the state: fn names the function, run gives
\* its outcome for a term, a language code and an answer of the fuzzy engine.
RunUnderFaults(fn, run(_, _, _)) ==
    /\ sPc = "idle"
    /\ \E searchTerm \in FaultTerms, langCode \in RootCodes \cup TranslationCodes,
          candidates \in FaultCandidates :
          /\ sCall' = CalledWith(fn, searchTerm, langCode, candidates)
          /\ sRet' = run(searchTerm, langCode, candidates)
    /\ sPc' = "done"
    /\ UNCHANGED <<db, notSearch>>

RunRootLanguageSearch ==
    RunUnderFaults("rootLanguageSearch",
        LAMBDA searchTerm, langCode, candidates :
            rootLanguageSearchUnder(faults, db, searchTerm, langCode))

RunDexieLanguageAwareSearch ==
    RunUnderFaults("dexieLanguageAwareSearch",
        LAMBDA searchTerm, langCode, candidates :
            dexieLanguageAwareSearchUnder(faults, db, searchTerm, langCode))

RunFuseLanguageAwareSearch ==
    RunUnderFaults("fuseLanguageAwareSearch",
        LAMBDA searchTerm, langCode, candidates :
            fuseLanguageAwareSearchUnder(faults, db, searchTerm, langCode,
                                         candidates))

RunLiteralSearchInIndexedDB ==
    RunUnderFaults("literalSearchInIndexedDB",
        LAMBDA searchTerm, langCode, candidates :
            literalSearchInIndexedDBUnder(faults, db, searchTerm, langCode))

RunSearchInIndexedDB ==
    RunUnderFaults("searchInIndexedDB",
        LAMBDA searchTerm, langCode, candidates :
            searchInIndexedDBUnder(faults, db, searchTerm, langCode, candidates))

RunEnhancedSearchInIndexedDB ==
    RunUnderFaults("enhancedSearchInIndexedDB",
        LAMBDA searchTerm, langCode, candidates :
            enhancedSearchInIndexedDBUnder(faults, db, searchTerm, langCode,
                                           candidates))

RunLanguageAwareSearch ==
    RunUnderFaults("languageAwareSearch",
        LAMBDA searchTerm, langCode, candidates :
            languageAwareSearchUnder(faults, db, searchTerm, langCode, candidates))

RunExecuteSearch ==
    RunUnderFaults("executeSearch",
        LAMBDA searchTerm, langCode, candidates :
            executeSearch(faults, db, searchTerm, langCode, candidates))

FaultsNext ==
    \/ RunRootLanguageSearch
    \/ RunDexieLanguageAwareSearch
    \/ RunFuseLanguageAwareSearch
    \/ RunLiteralSearchInIndexedDB
    \/ RunSearchInIndexedDB
    \/ RunEnhancedSearchInIndexedDB
    \/ RunLanguageAwareSearch
    \/ RunExecuteSearch

SpecFaults == FaultsInit /\ [][FaultsNext]_vars

(***************************************************************************)
(* Title enrichment as a state machine: the three translated verses, the   *)
(* root record of the first document in each condition a title lookup can  *)
(* meet, the root store readable or throwing, and one enriched search.     *)
(***************************************************************************)
\* The root record of the first document: with the index of a translated
\* verse as title_verseindex, without one, with one no translated verse
\* has, or not there at all.
TitleCases == {"titled", "untitled", "unmatched", "absent"}

TitledVerses(v1, v2, v3, titleCase, title) ==
    LET trans1 == [Record(Doc(1), "", <<Thread("sujato", "dn1:1", v1),
                                        Thread("sujato", "dn1:2", v3)>>)
                   EXCEPT !.title = title]
        trans2 == Record(Doc(2), "", <<Thread("sujato", "dn2:1", v2)>>)
        root1 == Record(Doc(1),
                        CASE titleCase = "titled" -> "dn1:1"
                          [] titleCase = "unmatched" -> "dn1:9"
                          [] OTHER -> "",
                        <<Thread("", "dn1:1", <<"a">>)>>)
        root2 == Record(Doc(2), "dn2:1", <<Thread("", "dn2:1", <<"a">>)>>)
    IN  [NoRecords EXCEPT ![<<"pli", "en", "sutta">>] = <<trans1, trans2>>,
                          ![<<"pli">>] = IF titleCase = "absent" THEN <<root2>>
                                         ELSE <<root1, root2>>,
                          ![<<"en">>] = <<trans1, trans2>>]

TitlesInit ==
    /\ \E v1 \in FuzzyTexts, v2 \in FuzzyTexts, v3 \in FuzzyTexts,
          titleCase \in TitleCases, title \in {<<>>, <<"t">>} :
          db = TitledVerses(v1, v2, v3, titleCase, title)
    /\ faults \in {NoFaults, [NoFaults EXCEPT !.bad = <<"pli">>]}
    /\ sPc = "idle"
    /\ sCall = NoCall
    /\ sRet = Returned(<<>>, <<>>)
    /\ RestOff("faults")

TitlesNext ==
    \/ RunEnhancedSearchInIndexedDB
    \/ RunLanguageAwareSearch

SpecTitles == TitlesInit /\ [][TitlesNext]_vars

(***************************************************************************)
(* Rendering the threads of a text as a state machine: a root record with  *)
(* a thread_list of two items, a translation that is missing or has one    *)
(* item, and one step for every iteration of the forEach callback.         *)
(***************************************************************************)
MaxAuthors == 2

AuthorKeys == <<"bodhi", "sujato", "thanissaro", "brahmali">>

ThreadVerseIndexes == {"", "dn1:1"}
ThreadVerses == {<<>>, <<"a">>, <<"b">>}

AuthorValues ==
    {Value("null", "", <<>>), Value("string", "", <<>>)}
    \cup {Value("object", verseindex, verse) :
             verseindex \in ThreadVerseIndexes, verse \in ThreadVerses}

\* The objects with up to MaxAuthors author keys.
AuthorLists ==
    UNION {{[k \in 1..n |-> [author |-> AuthorKeys[k], value |-> values[k]]] :
               values \in [1..n -> AuthorValues]} : n \in 0..MaxAuthors}

ThreadItems ==
    {NullItem, Item("string", "", <<>>, <<>>)}
    \cup {Item("object", verseindex, verse, authors) :
             verseindex \in ThreadVerseIndexes, verse \in ThreadVerses,
             authors \in AuthorLists}

SecondItems ==
    {NullItem, Item("object", "dn1:2", <<"c">>, <<>>)}

TranslationItems ==
    {NullItem,
     Item("object", "dn1:1", <<"t">>, <<>>),
     Item("object", "", <<>>,
          <<[author |-> "bodhi", value |-> Value("object", "dn1:1", <<" ">>)],
            [author |-> "sujato", value |-> Value("object", "dn1:1", <<"t">>)]>>),
     Item("object", "", <<>>,
          <<[author |-> "sujato", value |-> Value("null", "", <<>>)]>>)}

ThreadsInit ==
    /\ \E first \in ThreadItems, second \in SecondItems,
          title_verseindex \in {"", "dn1:1"} :
          rootData = [found |-> TRUE, title_verseindex |-> title_verseindex,
                      thread_list |-> <<first, second>>]
    /\ \/ transData = NoData
       \/ \E item \in TranslationItems :
             transData = [found |-> TRUE, title_verseindex |-> "",
                          thread_list |-> <<item>>]
    /\ sameLanguage \in BOOLEAN
    /\ threadIndex = 1
    /\ paragraphs = <<>>
    /\ tPc = "rendering"
    /\ RestOff("threads")

\* One call of the forEach callback.
RenderThreadItem ==
    /\ tPc = "rendering"
    /\ threadIndex <= Len(rootData.thread_list)
    /\ LET threadItem == rootData.thread_list[threadIndex]
           thread_root == ThreadRoot(threadItem)
           throws == /\ thread_root.found
                     /\ ~sameLanguage
                     /\ transData.found
                     /\ threadIndex <= Len(transData.thread_list)
                     /\ TranslationThrows(transData.thread_list[threadIndex])
       IN  IF throws
           THEN /\ tPc' = "threw"
                /\ UNCHANGED <<threadIndex, paragraphs>>
           ELSE /\ paragraphs' =
                       IF thread_root.found
                       THEN Append(paragraphs,
                                   ThreadParagraph(rootData, transData,
                                                   sameLanguage, threadIndex,
                                                   thread_root))
                       ELSE paragraphs
                /\ threadIndex' = threadIndex + 1
                /\ tPc' = IF threadIndex = Len(rootData.thread_list)
                          THEN "done" ELSE "rendering"
    /\ UNCHANGED <<rootData, transData, sameLanguage, notThreads>>

ThreadsNext == RenderThreadItem

SpecThreads == ThreadsInit /\ [][ThreadsNext]_vars

(***************************************************************************)
(* Flattening as a state machine: a root table, a translation table and    *)
(* their records, whose verses are missing, no strings or strings, and one *)
(* iteration of a partition by one of the searches.                        *)
(***************************************************************************)
StoredVerses ==
    {<<>>, NotAString, <<"a">>, <<"A", AAcute>>, <<"a", CombiningAcute>>,
     <<CombiningAcute>>}

StoredCorpus(v1, v2, v3) ==
    LET root1 == Record(Doc(1), "", <<Thread("", "dn1:1", v1),
                                      Thread("", "dn1:2", v2)>>)
        root2 == Record(Doc(2), "", <<Thread("", "dn2:1", v3)>>)
        trans1 == Record(Doc(1), "", <<Thread("bodhi", "dn1:1", v1),
                                       Thread("sujato", "dn1:1", v2)>>)
        trans2 == Record(Doc(2), "", <<Thread("sujato", "dn2:1", v3)>>)
    IN  [NoRecords EXCEPT ![<<"pli", "sutta">>] = <<root1, root2>>,
                          ![<<"pli", "en", "sutta">>] = <<trans1, trans2>>]

FlattenInit ==
    /\ \E v1 \in StoredVerses, v2 \in StoredVerses, v3 \in StoredVerses :
          db = StoredCorpus(v1, v2, v3)
    /\ sPc = "off"
    /\ sCall = NoCall
    /\ sRet = Returned(<<>>, <<>>)
    /\ fStore = <<>>
    /\ allVerses = <<>>
    /\ fPc = "ready"
    /\ RestOff("flatten")

\* rootLanguageSearch iterates a root table.
CollectRootTable ==
    /\ fPc = "ready"
    /\ fStore' = <<"pli", "sutta">>
    /\ allVerses' = FlattenRootTable(db, <<"pli", "sutta">>)
    /\ fPc' = "done"
    /\ UNCHANGED <<db, notFlatten>>

\* The Dexie languageAwareSearch iterates a translation table.
CollectTranslationTable ==
    /\ fPc = "ready"
    /\ fStore' = <<"pli", "en", "sutta">>
    /\ allVerses' = FlattenTranslationTable(db, <<"pli", "en", "sutta">>)
    /\ fPc' = "done"
    /\ UNCHANGED <<db, notFlatten>>

\* languageAwareSearch of search_indexeddb.js iterates a translation table.
CollectTexts ==
    /\ fPc = "ready"
    /\ fStore' = <<"pli", "en", "sutta">>
    /\ allVerses' = FlattenTexts(db, <<"pli", "en", "sutta">>)
    /\ fPc' = "done"
    /\ UNCHANGED <<db, notFlatten>>

FlattenNext ==
    \/ CollectRootTable
    \/ CollectTranslationTable
    \/ CollectTexts

SpecFlatten == FlattenInit /\ [][FlattenNext]_vars

(***************************************************************************)
(* Two searches at once as a state machine.  A search runs from one await  *)
(* to the next in one step: the Dexie and the Fuse languageAwareSearch     *)
(* await the iteration of one partition after the other, and               *)
(* enhancedSearchInIndexedDB awaits the base search and then one title     *)
(* lookup for every result it visits.  Between two steps of a search the   *)
(* other search may take any number of steps.  Every search keeps its      *)
(* accumulators (allVerses, enrichedResults, processedSuttaRefs) in its    *)
(* own locals.                                                             *)
(***************************************************************************)
Searches == {1, 2}

ConcurrentTexts == {<<"a">>, <<"b">>, <<"a", "b">>}
ConcurrentTerms == {<<"a">>, <<"b">>}

\* The titled corpus with the second document in a partition of its own.
ConcurrentCorpus(v1, v2, v3) ==
    LET titled == TitledVerses(v1, v2, v3, "titled", <<>>)
    IN  [titled EXCEPT
            ![<<"pli", "en", "sutta">>] = <<titled[<<"en">>][1]>>,
            ![<<"pli", "en", "vinaya">>] = <<titled[<<"en">>][2]>>]

NoRun ==
    [fn |-> "none", searchTerm |-> <<>>, langCode |-> "none",
     candidates |-> NoCandidates, pc |-> "idle", next |-> 1,
     allVerses |-> <<>>, results |-> <<>>, enrichedResults |-> <<>>,
     processedSuttaRefs |-> {}]

ConcurrentInit ==
    /\ \E v1 \in ConcurrentTexts, v2 \in ConcurrentTexts, v3 \in ConcurrentTexts :
          db = ConcurrentCorpus(v1, v2, v3)
    /\ sPc = "off"
    /\ sCall = NoCall
    /\ sRet = Returned(<<>>, <<>>)
    /\ runs = [i \in Searches |-> NoRun]
    /\ RestOff("runs")

\* The partitions a search of the translation tables iterates.
StoreNamesOf(langCode) ==
    SelectSeq(AllTables, LAMBDA name : Len(name) = 3 /\ name[2] = langCode)

\* The variant with processedSuttaRefs one set of the script, which every
\* search adds to.
ProcessedByScript(rs, i) ==
    UNION {rs[j].processedSuttaRefs : j \in DOMAIN rs}

\* const processedSuttaRefs = new Set(): the set a search consults is its
\* own.
ProcessedBy(rs, i) == rs[i].processedSuttaRefs

\* A search is called: it runs up to its first await.
StartSearch(i) ==
    /\ runs[i].pc = "idle"
    /\ \E fn \in {"dexieLanguageAwareSearch", "fuseLanguageAwareSearch",
                  "enhancedSearchInIndexedDB"},
          searchTerm \in ConcurrentTerms, candidates \in FaultCandidates :
          /\ fn = "dexieLanguageAwareSearch" => candidates = NoCandidates
          /\ runs' = [runs EXCEPT ![i] =
                 [NoRun EXCEPT !.fn = fn, !.searchTerm = searchTerm,
                               !.langCode = "en", !.candidates = candidates,
                               !.pc = IF fn = "enhancedSearchInIndexedDB"
                                      THEN "base" ELSE "scanning"]]
    /\ UNCHANGED <<db, notRuns>>

\* The iteration of the next partition settles: its verses are pushed.
ScanPartition(i) ==
    /\ runs[i].pc = "scanning"
    /\ runs[i].next <= Len(StoreNamesOf(runs[i].langCode))
    /\ LET storeName == StoreNamesOf(runs[i].langCode)[runs[i].next]
           pushed == IF runs[i].fn = "dexieLanguageAwareSearch"
                     THEN FlattenTranslationTable(db, storeName)
                     ELSE FlattenTexts(db, storeName)
       IN  runs' = [runs EXCEPT ![i].allVerses = runs[i].allVerses \o pushed,
                                ![i].next = @ + 1]
    /\ UNCHANGED <<db, notRuns>>

\* After the last partition: filter, score, sort, close and return.
FinishScan(i) ==
    /\ runs[i].pc = "scanning"
    /\ runs[i].next > Len(StoreNamesOf(runs[i].langCode))
    /\ LET run == runs[i]
           collected == runs[i].allVerses
           normalizedSearchTerm == normalizeText(run.searchTerm)
           fused == PostFilter(FuseSearch(collected, run.candidates),
                               run.searchTerm)
       IN  runs' = [runs EXCEPT
               ![i].pc = "done",
               ![i].results =
                   IF run.fn = "dexieLanguageAwareSearch"
                   THEN FilterScoreSort(collected, normalizedSearchTerm,
                                        SplitOnSpace(normalizedSearchTerm))
                   ELSE [k \in DOMAIN fused |->
                            [url_key |-> fused[k].item.url_key,
                             verseindex |-> fused[k].item.verseindex,
                             verse |-> fused[k].item.verse,
                             author |-> fused[k].item.author,
                             store |-> fused[k].item.store,
                             score |-> fused[k].score]]]
    /\ UNCHANGED <<db, notRuns>>

\* The base search of enhancedSearchInIndexedDB settles.
BaseSearchSettles(i) ==
    /\ runs[i].pc = "base"
    /\ runs' = [runs EXCEPT
           ![i].pc = "titles",
           ![i].results = searchInIndexedDB(db, runs[i].searchTerm,
                                            runs[i].langCode,
                                            runs[i].candidates).results]
    /\ UNCHANGED <<db, notRuns>>

\* One iteration of the loop over the results, with its title lookup.
ResolveTitle(i) ==
    /\ runs[i].pc = "titles"
    /\ runs[i].next <= Len(runs[i].results)
    /\ LET run == runs[i]
           suttaRef == run.results[run.next].url_key
           title == fetchTitleFromRootLanguage(db, suttaRef, run.langCode)
           same == SelectSeq(run.results,
                             LAMBDA item : item.url_key = suttaRef)
       IN  IF suttaRef \in ProcessedBy(runs, i)
           THEN runs' = [runs EXCEPT ![i].next = @ + 1]
           ELSE runs' = [runs EXCEPT
                    ![i].next = @ + 1,
                    ![i].processedSuttaRefs = @ \cup {suttaRef},
                    ![i].enrichedResults = @ \o
                        [j \in DOMAIN same |->
                            [same[j] EXCEPT !.title =
                                IF title /= <<>> THEN title ELSE @]]]
    /\ UNCHANGED <<db, notRuns>>

\* After the last result: the enriched results are returned, or the base
\* results when there are none.
FinishTitles(i) ==
    /\ runs[i].pc = "titles"
    /\ runs[i].next > Len(runs[i].results)
    /\ runs' = [runs EXCEPT
           ![i].pc = "done",
           ![i].results = IF runs[i].enrichedResults /= <<>>
                          THEN runs[i].enrichedResults ELSE @]
    /\ UNCHANGED <<db, notRuns>>

ConcurrentNext ==
    \E i \in Searches :
        \/ StartSearch(i)
        \/ ScanPartition(i)
        \/ FinishScan(i)
        \/ BaseSearchSettles(i)
        \/ ResolveTitle(i)
        \/ FinishTitles(i)

SpecConcurrent == ConcurrentInit /\ [][ConcurrentNext]_vars

(***************************************************************************)
(* The data loader as a state machine (dexie-loader.js and its idb         *)
(* version).  The file list has MaxFiles files, one table each.  A page    *)
(* load runs the loader script once; tables and localStorage outlive the   *)
(* page.  Every file meets one outcome: its table exists or not, the count *)
(* of its records succeeds or throws, the fetch gives data, a 404 or an    *)
(* error, and the transaction that puts the data commits or throws (and    *)
(* then leaves the table as it was).  loader.processed lists the files     *)
(* loadNextFile was at, loader.puts the tables records were put into.      *)
(***************************************************************************)
MaxFiles == 3
MaxLoads == 2

dbVersion == 4

\* allFiles.length
totalFiles == MaxFiles

\* dispatchLoadedEvent: what it leaves in localStorage, without the version.
LoadedFlagOnly(storage) == [storage EXCEPT !.loaded = TRUE]

\* dispatchLoadedEvent: what it leaves in localStorage.
LoadedFlags(storage) == [loaded |-> TRUE, loadedVersion |-> dbVersion]

LoadedEvent(successful, failed, total) ==
    [successful |-> successful, failed |-> failed, total |-> total]

LoaderInit ==
    /\ tables \in [1..MaxFiles -> BOOLEAN]
    /\ localStorage \in [loaded : BOOLEAN, loadedVersion : {0, dbVersion - 1}]
    /\ loader = [NoLoader EXCEPT !.pc = "start", !.load = 1,
                                 !.loadedVersion = localStorage.loadedVersion]
    /\ loadedEvents = <<>>
    /\ RestOff("loader")

\* The stored version is the database version: the event is dispatched
\* with zero counts and the script returns.
SkipLoading ==
    /\ loader.pc = "start"
    /\ loader.loadedVersion = dbVersion
    /\ localStorage' = LoadedFlags(localStorage)
    /\ loadedEvents' = Append(loadedEvents, LoadedEvent(0, 0, 0))
    /\ loader' = [loader EXCEPT !.pc = "returned", !.gate = "skipped"]
    /\ UNCHANGED <<tables, notLoader>>

\* Dexie (idb) is not loaded: the script returns.
LibraryMissing ==
    /\ loader.pc = "start"
    /\ loader.loadedVersion /= dbVersion
    /\ loader' = [loader EXCEPT !.pc = "returned", !.gate = "no library"]
    /\ UNCHANGED <<tables, localStorage, loadedEvents, notLoader>>

\* Setting up the database throws: the catch block of the script.
CriticalError ==
    /\ loader.pc = "start"
    /\ loader.loadedVersion /= dbVersion
    /\ loader' = [loader EXCEPT !.pc = "returned", !.gate = "critical error"]
    /\ UNCHANGED <<tables, localStorage, loadedEvents, notLoader>>

\* The database is set up and loadNextFile is called.
BeginLoading ==
    /\ loader.pc = "start"
    /\ loader.loadedVersion /= dbVersion
    /\ loader' = [loader EXCEPT !.pc = "loading", !.gate = "loading"]
    /\ UNCHANGED <<tables, localStorage, loadedEvents, notLoader>>

\* The variant of storeData whose error comes after the bookkeeping of a
\* success.
storeDataCountsTwice(l, committed) ==
    IF committed
    THEN [l EXCEPT !.successfulLoads = @ + 1, !.currentFileIndex = @ + 1]
    ELSE [l EXCEPT !.successfulLoads = @ + 1, !.failedLoads = @ + 1,
                   !.currentFileIndex = @ + 2]

\* storeData on an existing table: the counters after the transaction.
storeData(l, committed) ==
    IF committed
    THEN [l EXCEPT !.successfulLoads = @ + 1, !.currentFileIndex = @ + 1]
    ELSE [l EXCEPT !.failedLoads = @ + 1, !.currentFileIndex = @ + 1]

\* loadNextFile for a file of the list, up to its call of loadNextFile for
\* the next.
LoadNextFile ==
    /\ loader.pc = "loading"
    /\ loader.currentFileIndex < totalFiles
    /\ \E exists \in BOOLEAN, counted \in BOOLEAN,
          fetched \in {"data", "missing", "error"}, committed \in BOOLEAN :
          LET file == loader.currentFileIndex + 1
              hasData == exists /\ counted /\ tables[file]
              at == [loader EXCEPT !.processed = Append(@, file)]
              put == [file |-> file, counted |-> exists /\ counted,
                      hadData |-> tables[file]]
          IN  IF hasData \/ fetched /= "data" \/ ~exists
              THEN /\ loader' = [at EXCEPT !.currentFileIndex = @ + 1]
                   /\ UNCHANGED tables
              ELSE /\ loader' = storeData(
                          [at EXCEPT !.puts = IF committed THEN Append(@, put)
                                              ELSE @],
                          committed)
                   /\ tables' = IF committed
                                    THEN [tables EXCEPT ![file] = TRUE]
                                    ELSE tables
    /\ UNCHANGED <<localStorage, loadedEvents, notLoader>>

\* loadNextFile past the end of the list: the event is dispatched.
FinishLoading ==
    /\ loader.pc = "loading"
    /\ loader.currentFileIndex >= totalFiles
    /\ localStorage' = LoadedFlags(localStorage)
    /\ loadedEvents' = Append(loadedEvents,
                              LoadedEvent(loader.successfulLoads,
                                          loader.failedLoads, totalFiles))
    /\ loader' = [loader EXCEPT !.pc = "returned"]
    /\ UNCHANGED <<tables, notLoader>>

\* The page is loaded again: the script runs anew and reads the stored
\* version.
Reload ==
    /\ loader.pc = "returned"
    /\ loader.load < MaxLoads
    /\ loader' = [NoLoader EXCEPT !.pc = "start", !.load = loader.load + 1,
                                  !.loadedVersion = localStorage.loadedVersion]
    /\ loadedEvents' = <<>>
    /\ UNCHANGED <<tables, localStorage, notLoader>>

LoaderNext ==
    \/ SkipLoading
    \/ LibraryMissing
    \/ CriticalError
    \/ BeginLoading
    \/ LoadNextFile
    \/ FinishLoading
    \/ Reload

\* Every storage operation and every fetch settles, so a loader that has
\* begun goes on.
SpecLoader ==
    LoaderInit /\ [][LoaderNext]_vars
        /\ WF_vars(LoadNextFile) /\ WF_vars(FinishLoading)

(***************************************************************************)
(* The activation of the search page as a state machine                    *)
(* (activate_search.js).  The script runs, DOMContentLoaded follows, the   *)
(* loader of the page dispatches buddhist-texts-loaded at some moment or   *)
(* never does (no library, a critical error), and every callback handed to *)
(* setTimeout runs in its turn.  The callbacks are named for what they     *)
(* run; removeLoadingOverlay is the same callback whoever scheduled it.    *)
(***************************************************************************)
MaxChecks == 2

SearchParams == {<<>>, <<" ">>, <<"a">>, <<" ", "a">>}

ActivationInit ==
    /\ sessionFlag \in BOOLEAN
    /\ overlay \in {"shown", "absent"}
    /\ timers = {}
    /\ \E searchParam \in SearchParams, kind \in {"dispatches", "silent"} :
          activation = [NoActivation EXCEPT !.script = "loaded",
                                            !.searchParam = searchParam,
                                            !.loader = kind]
    /\ searchEvents = <<>>
    /\ RestOff("activation")

\* removeLoadingOverlay: what becomes of the overlay.
removeLoadingOverlay(element) ==
    IF element = "absent" THEN "absent" ELSE "hidden"

\* The script runs: with the flag set the overlay is removed, otherwise the
\* listener is added and the fallback timeout set.
RunScript ==
    /\ activation.script = "loaded"
    /\ IF sessionFlag
       THEN /\ overlay' = removeLoadingOverlay(overlay)
            /\ activation' = [activation EXCEPT !.script = "ran"]
            /\ UNCHANGED <<sessionFlag, timers>>
       ELSE /\ activation' = [activation EXCEPT !.script = "ran",
                                                !.listening = TRUE]
            /\ timers' = timers \cup {"fallback"}
            /\ UNCHANGED <<sessionFlag, overlay>>
    /\ UNCHANGED <<searchEvents, notActivation>>

\* The loader dispatches buddhist-texts-loaded: the listener, if it is
\* there, sets the timeout of removeLoadingOverlay.
LoadedEventDispatched ==
    /\ activation.loader = "dispatches"
    /\ ~activation.dispatched
    /\ activation' = [activation EXCEPT !.dispatched = TRUE]
    /\ timers' = IF activation.listening
                 THEN timers \cup {"removeLoadingOverlay"} ELSE timers
    /\ UNCHANGED <<sessionFlag, overlay, searchEvents, notActivation>>

\* The timeout of removeLoadingOverlay.
RemoveLoadingOverlay ==
    /\ "removeLoadingOverlay" \in timers
    /\ timers' = timers \ {"removeLoadingOverlay"}
    /\ overlay' = removeLoadingOverlay(overlay)
    /\ sessionFlag' = TRUE
    /\ UNCHANGED <<activation, searchEvents, notActivation>>

\* The variant of the fallback that shows nothing.
FallbackIdle(element, held) == held \ {"fallback"}

\* The fallback callback: reading the style of an overlay that is not
\* there throws; an overlay still shown gets removeLoadingOverlay set.
Fallback(element, held) ==
    IF element = "shown"
    THEN (held \ {"fallback"}) \cup {"removeLoadingOverlay"}
    ELSE held \ {"fallback"}

\* The 30-second timeout.
FallbackTimeout ==
    /\ "fallback" \in timers
    /\ timers' = Fallback(overlay, timers)
    /\ UNCHANGED <<sessionFlag, overlay, activation, searchEvents,
                   notActivation>>

\* The variant of checkDatabaseAndSearch that does not read the flag.
checkWithoutFlag(flag, held) ==
    (held \ {"checkDatabaseAndSearch"}) \cup {"dispatch"}

\* checkDatabaseAndSearch: the timeout it sets.
checkDatabaseAndSearch(flag, held) ==
    IF flag
    THEN (held \ {"checkDatabaseAndSearch"}) \cup {"dispatch"}
    ELSE held \cup {"checkDatabaseAndSearch"}

\* DOMContentLoaded: with a search term in the URL the first check runs.
DOMContentLoaded ==
    /\ activation.script = "ran"
    /\ activation.dom = "loading"
    /\ activation' = [activation EXCEPT !.dom = "ready"]
    /\ timers' = IF Trim(activation.searchParam) /= <<>>
                 THEN checkDatabaseAndSearch(sessionFlag, timers)
                 ELSE timers
    /\ UNCHANGED <<sessionFlag, overlay, searchEvents, notActivation>>

\* The timeout of checkDatabaseAndSearch.
CheckAgain ==
    /\ "checkDatabaseAndSearch" \in timers
    /\ sessionFlag \/ activation.checks < MaxChecks
    /\ timers' = checkDatabaseAndSearch(sessionFlag, timers)
    /\ activation' = [activation EXCEPT
                         !.checks = IF sessionFlag THEN @ ELSE @ + 1]
    /\ UNCHANGED <<sessionFlag, overlay, searchEvents, notActivation>>

\* The timeout that dispatches buddhist-texts-search.
DispatchSearch ==
    /\ "dispatch" \in timers
    /\ timers' = timers \ {"dispatch"}
    /\ searchEvents' = Append(searchEvents,
                              [searchTerm |-> Trim(activation.searchParam),
                               flag |-> sessionFlag])
    /\ UNCHANGED <<sessionFlag, overlay, activation, notActivation>>

ActivationNext ==
    \/ RunScript
    \/ LoadedEventDispatched
    \/ RemoveLoadingOverlay
    \/ FallbackTimeout
    \/ DOMContentLoaded
    \/ CheckAgain
    \/ DispatchSearch

\* The script runs, the document finishes loading and every timeout comes
\* due; the loader may never dispatch its event.
SpecActivation ==
    ActivationInit /\ [][ActivationNext]_vars
        /\ WF_vars(RunScript) /\ WF_vars(DOMContentLoaded)
        /\ WF_vars(RemoveLoadingOverlay) /\ WF_vars(FallbackTimeout)
        /\ WF_vars(CheckAgain) /\ WF_vars(DispatchSearch)

(***************************************************************************)
(* The search page as a state machine: up to MaxRequests search requests,  *)
(* each dispatched by the buddhist-texts-search listener and settled by    *)
(* the callbacks the listener attached to the promise of executeSearch.    *)
(* Storage does not change while the page is open, so what the promise of  *)
(* a request settles to is fixed when executeSearch is called: the request *)
(* carries it until the promise settles.  Every promise settles and its    *)
(* callback runs, in any order.                                            *)
(***************************************************************************)
MaxRequests == 2

PageTerms == {<<"a">>, <<"b">>}

\* The pages of the model: the dispatching generation with everything in
\* order, with storage that cannot be opened or without Fuse, and the page
\* without a languageAwareSearch.
PageFaults ==
    {fault \in FaultSet : /\ fault.bad = <<>>
                           /\ fault.missing \in {"none", "Fuse"}
                           /\ fault.generation \in {"dispatching", "none"}
                           /\ fault.rootSearch}

PageInit ==
    /\ db = TwoVerses(<<"a">>, <<"a">>)
    /\ faults \in PageFaults
    /\ requests = <<>>
    /\ container = NoContainer
    /\ sPc = "off"
    /\ sCall = NoCall
    /\ sRet = Returned(<<>>, <<>>)
    /\ RestOff("page")

\* A request in flight and what its promise will settle to.
InFlightRequest(searchTerm, langCode, candidates) ==
    LET outcome == executeSearch(faults, db, searchTerm, langCode, candidates)
    IN  [searchTerm |-> searchTerm, langCode |-> langCode, pc |-> "inflight",
         settled |-> outcome.settled, results |-> outcome.results]

\* The listener: the loading state replaces what the container shows, and
\* executeSearch is called.
Request(searchTerm, langCode) ==
    /\ \E candidates \in FaultCandidates :
          requests' = Append(requests,
                             InFlightRequest(searchTerm, langCode, candidates))
    /\ container' = [shows |-> "loading", request |-> Len(requests) + 1,
                     total |-> 0]
    /\ UNCHANGED <<db, faults, notPage>>

\* Mutant of Dispatch: a new request cancels the ones in flight.
DispatchCancels ==
    /\ Len(requests) < MaxRequests
    /\ \E searchTerm \in PageTerms, langCode \in RootCodes \cup TranslationCodes,
          candidates \in FaultCandidates :
          /\ requests' = Append([k \in DOMAIN requests |->
                                    [requests[k] EXCEPT !.pc = "cancelled"]],
                                InFlightRequest(searchTerm, langCode, candidates))
          /\ container' = [shows |-> "loading", request |-> Len(requests) + 1,
                           total |-> 0]
    /\ UNCHANGED <<db, faults, notPage>>

\* A buddhist-texts-search event.
Dispatch ==
    /\ Len(requests) < MaxRequests
    /\ \E searchTerm \in PageTerms, langCode \in RootCodes \cup TranslationCodes :
          Request(searchTerm, langCode)

\* A click on the Try Again button of the error UI: the same event again.
Retry ==
    /\ Len(requests) < MaxRequests
    /\ container.shows = "error"
    /\ Request(requests[container.request].searchTerm,
               requests[container.request].langCode)

\* What the callbacks leave in the container for request i: the error UI
\* after a rejection, else what renderResults writes.
Rendered(i, outcome) ==
    LET out == renderResults(outcome.results, requests[i].searchTerm,
                             requests[i].langCode)
    IN  IF outcome.settled = "rejected"
        THEN [shows |-> "error", request |-> i, total |-> 0]
        ELSE IF out.message = "No results found"
             THEN [shows |-> "noResults", request |-> i, total |-> 0]
        ELSE [shows |-> "results", request |-> i,
              total |-> out.totalUniqueResults]

\* The promise of request i settles and its then or catch callback runs.
Settle(i) ==
    /\ i \in DOMAIN requests
    /\ requests[i].pc = "inflight"
    /\ container' = Rendered(i, requests[i])
    /\ requests' = [requests EXCEPT ![i].pc = "rendered"]
    /\ UNCHANGED <<db, faults, notPage>>

PageNext ==
    \/ Dispatch
    \/ Retry
    \/ \E i \in 1..MaxRequests : Settle(i)

SpecPage ==
    PageInit /\ [][PageNext]_vars /\ \A i \in 1..MaxRequests : WF_vars(Settle(i))

(***************************************************************************)
(* Terms with one normalized form.                                         *)
(***************************************************************************)
\* The finished call once more, on the same storage and with the same
\* answer of the fuzzy engine, for another raw term.
SearchAgain(searchTerm) ==
    CASE sCall.fn = "rootLanguageSearch" ->
            rootLanguageSearch(db, searchTerm, sCall.langCode)
      [] sCall.fn = "dexieLanguageAwareSearch" ->
            dexieLanguageAwareSearch(db, searchTerm, sCall.langCode)
      [] sCall.fn = "languageAwareSearch" ->
            languageAwareSearch(db, searchTerm, sCall.langCode, sCall.candidates)
      [] sCall.fn = "searchInIndexedDB" ->
            searchInIndexedDB(db, searchTerm, sCall.langCode, sCall.candidates)
      [] sCall.fn = "fuseLanguageAwareSearch" ->
            fuseLanguageAwareSearch(db, searchTerm, sCall.langCode,
                                    sCall.candidates)
      [] sCall.fn = "enhancedSearchInIndexedDB" ->
            enhancedSearchInIndexedDB(db, searchTerm, sCall.langCode,
                                      sCall.candidates)

\* C14: a finished search returns the result list that the same search, on
\* the same storage, returns for every other raw term with the same
\* normalized form, single-word or multi-word.
C14_SameNormalizedFormSameResults ==
    sPc = "done" =>
        \A other \in SearchTerms \cup FuzzyTerms :
            normalizeText(other) = normalizeText(sCall.searchTerm) =>
                SearchAgain(other).results = sRet.results

(***************************************************************************)
(* Storage handles.                                                        *)
(***************************************************************************)
RECURSIVE OpenHandlesFrom(_, _, _)
OpenHandlesFrom(storage, k, open) ==
    IF k > Len(storage) THEN open
    ELSE IF storage[k] = "open" THEN OpenHandlesFrom(storage, k + 1, open + 1)
    ELSE IF storage[k] = "close"
         THEN OpenHandlesFrom(storage, k + 1, IF open > 0 THEN open - 1 ELSE 0)
    ELSE OpenHandlesFrom(storage, k + 1, open)

\* The number of handles a storage log leaves open.
OpenHandles(storage) == OpenHandlesFrom(storage, 1, 0)

\* C19: when a search invocation has resolved, every storage handle it
\* opened, the handles of title resolution included, has been closed.
C19_HandlesClosedWhenResolved ==
    sPc = "done" => OpenHandles(sRet.storage) = 0

(***************************************************************************)
(* The dispatchers.                                                        *)
(***************************************************************************)
\* The functions that ran during the finished call.
Ran == {sRet.ran[k] : k \in DOMAIN sRet.ran}

RootSearches == {"rootLanguageSearch", "literalSearchInIndexedDB"}
TranslationSearches ==
    {"enhancedSearchInIndexedDB", "searchInIndexedDB", "fuseLanguageAwareSearch",
     "dexieLanguageAwareSearch"}

DispatcherDone ==
    sPc = "done" /\ sCall.fn \in {"languageAwareSearch", "executeSearch"}

PartitionsOf(fn, langCode) ==
    IF fn = "rootLanguageSearch"
    THEN SelectSeq(RootTables, LAMBDA name : name[1] = langCode)
    ELSE SelectSeq(AllTables, LAMBDA name : Len(name) = 3 /\ name[2] = langCode)

PartitionThrew ==
    /\ sPc = "done"
    /\ sCall.fn \in {"rootLanguageSearch", "dexieLanguageAwareSearch",
                     "fuseLanguageAwareSearch"}
    /\ \E k \in DOMAIN PartitionsOf(sCall.fn, sCall.langCode) :
          PartitionsOf(sCall.fn, sCall.langCode)[k] = faults.bad

\* The finished call on the storage whose partition bad holds nothing.
WithoutBadPartition ==
    LET without == Delivered(db, faults.bad, 1)
    IN  CASE sCall.fn = "rootLanguageSearch" ->
                rootLanguageSearch(without, sCall.searchTerm, sCall.langCode)
          [] sCall.fn = "dexieLanguageAwareSearch" ->
                dexieLanguageAwareSearch(without, sCall.searchTerm, sCall.langCode)
          [] sCall.fn = "fuseLanguageAwareSearch" ->
                fuseLanguageAwareSearch(without, sCall.searchTerm, sCall.langCode,
                                        sCall.candidates)

\* C16: when the iteration of one partition throws, the search scans every
\* other partition of the language code, no result comes from the partition
\* that threw, and the results are those of the search on the other
\* partitions.
C16_OnePartitionFailureIsContained ==
    PartitionThrew =>
        LET partitions == PartitionsOf(sCall.fn, sCall.langCode)
        IN  /\ \A k \in DOMAIN partitions :
                  \E j \in DOMAIN sRet.storage : partitions[k] = sRet.storage[j]
            /\ \A k \in DOMAIN sRet.results : sRet.results[k].store /= faults.bad
            /\ sRet.results = WithoutBadPartition.results

(***************************************************************************)
(* The promise of a search.                                                *)
(***************************************************************************)
SearchFunctions ==
    {"rootLanguageSearch", "dexieLanguageAwareSearch", "fuseLanguageAwareSearch",
     "literalSearchInIndexedDB", "searchInIndexedDB",
     "enhancedSearchInIndexedDB", "languageAwareSearch"}

\* Does the finished call use the fuzzy engine?
CallsFuse ==
    \/ sCall.fn \in {"searchInIndexedDB", "enhancedSearchInIndexedDB",
                     "fuseLanguageAwareSearch"}
    \/ sCall.fn = "languageAwareSearch" /\ sCall.langCode \notin rootLanguages

\* A failure of the finished call that no try/catch around one partition
\* takes: storage that cannot be opened, a library the function uses that
\* is missing, a store that throws in a function that iterates it without a
\* try/catch of its own.
FailedOutsidePartitionScan ==
    \/ faults.storage = "unavailable"
    \/ faults.missing = "Dexie"
          /\ sCall.fn \in {"rootLanguageSearch", "dexieLanguageAwareSearch"}
    \/ faults.missing = "idb"
          /\ sCall.fn \notin {"rootLanguageSearch", "dexieLanguageAwareSearch"}
    \/ faults.missing = "Fuse" /\ CallsFuse
    \/ /\ faults.bad = <<sCall.langCode>>
       /\ sCall.fn \in {"literalSearchInIndexedDB", "searchInIndexedDB",
                        "enhancedSearchInIndexedDB", "languageAwareSearch"}
    \/ sCall.fn = "fuseLanguageAwareSearch" /\ PartitionThrew

\* C17: the promise of a search function resolves, whatever fails, and it
\* resolves to the empty array when the failure is outside a per-partition
\* scan.
C17_SearchNeverRejects ==
    sPc = "done" /\ sCall.fn \in SearchFunctions =>
        /\ sRet.settled = "resolved"
        /\ FailedOutsidePartitionScan => sRet.results = <<>>

C17_Witness ==
    /\ sPc = "done"
    /\ sCall.fn = "enhancedSearchInIndexedDB"
    /\ sCall.langCode = "en"
    /\ sCall.searchTerm = <<"a">>
    /\ sCall.candidates /= NoCandidates
    /\ db[<<"en">>][1].verses[1].verse = <<"a">>
    /\ faults.missing = "Fuse"
    /\ sRet.settled = "resolved"
    /\ sRet.results = <<>>

(***************************************************************************)
(* The results container.                                                  *)
(***************************************************************************)
\* Did the search of request i fail because storage or the fuzzy-matching
\* library is unavailable?
SearchFailed(i) ==
    \/ faults.storage = "unavailable"
    \/ /\ faults.missing = "Fuse"
       /\ requests[i].langCode \notin rootLanguages
       /\ faults.generation \in {"fuse", "dispatching"}

\* C18: a request whose search failed because storage or the fuzzy-matching
\* library is unavailable leaves the error UI in the container, and the
\* no-results message is there only after a search that did not fail.
C18_FailureShowsErrorUI ==
    container.shows \in {"results", "noResults", "error"} =>
        /\ SearchFailed(container.request) => container.shows = "error"
        /\ container.shows = "noResults" => ~SearchFailed(container.request)

InFlight(i) == i \in DOMAIN requests /\ requests[i].pc = "inflight"
HasRendered(i) == i \in DOMAIN requests /\ requests[i].pc = "rendered"

\* A step cancels no request in flight, and the request it settles writes
\* the container.
NeverCancelled ==
    \A i \in DOMAIN requests :
        requests[i].pc = "inflight" =>
            /\ i \in DOMAIN requests'
            /\ requests'[i].pc \in {"inflight", "rendered"}
            /\ requests'[i].pc = "rendered" =>
                  container'.request = i /\ container'.shows /= "loading"

\* C20: a request dispatched while another is in flight does not cancel it:
\* every request in flight stays in flight until it has rendered, and every
\* request in flight does render.
C20_RequestsAreNotCancelled ==
    /\ [][NeverCancelled]_vars
    /\ \A i \in 1..MaxRequests : InFlight(i) ~> HasRendered(i)

\* The earlier request finished last: the container shows its results, not
\* those of the later request.
C20_Witness ==
    /\ Len(requests) = 2
    /\ HasRendered(1) /\ HasRendered(2)
    /\ requests[1].searchTerm /= requests[2].searchTerm
    /\ container.request = 1
    /\ container.shows = "results"

(***************************************************************************)
(* Positions emitted by the windows of a snippet.                          *)
(***************************************************************************)
\* The positions of the source text a window emits, in order.
PositionsOf(w) == [k \in 1..(w.end - w.start) |-> w.start + k - 1]

\* C26: in a snippet built from several windows, the positions of the
\* source text that the windows emit, in order of emission, are strictly
\* increasing: no position is emitted twice.
C26_NoPositionEmittedTwice ==
    hPc = "done" /\ hOut.path = "windows" =>
        LET emitted == Concat([k \in DOMAIN hOut.windows |->
                                  PositionsOf(hOut.windows[k])])
        IN  \A k \in 1..(Len(emitted) - 1) : emitted[k] < emitted[k + 1]

(***************************************************************************)
(* Title resolution.                                                       *)
(***************************************************************************)
\* The finished call was an enriched search of a translation language.
EnrichedSearchDone ==
    /\ sPc = "done"
    /\ sCall.fn \in {"enhancedSearchInIndexedDB", "languageAwareSearch"}
    /\ sCall.langCode \notin rootLanguages
    /\ "enhancedSearchInIndexedDB" \in Ran

\* The handles opened during a call: one by the base search and one by
\* every invocation of fetchTitleFromRootLanguage.
Opens(storage) == Len(SelectSeq(storage, LAMBDA op : op = "open"))

\* The documents of a result list.
DocumentsOf(results) == {results[k].url_key : k \in DOMAIN results}

\* The results of one document, in order.
ResultsOf(results, suttaRef) ==
    SelectSeq(results, LAMBDA result : result.url_key = suttaRef)

\* C22: within one enriched search, fetchTitleFromRootLanguage is invoked
\* once for every document that has results, however many results share
\* it, and all results of a document carry the same title.
C22_TitleResolvedOncePerDocument ==
    EnrichedSearchDone =>
        /\ Opens(sRet.storage) = 1 + Cardinality(DocumentsOf(sRet.results))
        /\ \A i \in DOMAIN sRet.results, j \in DOMAIN sRet.results :
              sRet.results[i].url_key = sRet.results[j].url_key
                  => sRet.results[i].title = sRet.results[j].title

C22_Witness ==
    /\ EnrichedSearchDone
    /\ Len(ResultsOf(sRet.results, Doc(1))) = 2
    /\ Len(ResultsOf(sRet.results, Doc(2))) = 1
    /\ sRet.results[1].title = <<"b">>
    /\ Opens(sRet.storage) = 3

\* What the base search of the finished call returned.
BaseResults ==
    searchInIndexedDB(db, sCall.searchTerm, sCall.langCode, sCall.candidates).results

\* Does title resolution fail for a document: a root store that throws, no
\* root record, no title_verseindex, or no translated verse with that index?
ResolutionFails(suttaRef) ==
    LET rootRecords == RecordsAt(db, <<suttaRef[1]>>, suttaRef)
        targetRecords == RecordsAt(db, <<sCall.langCode>>, suttaRef)
    IN  \/ faults.bad = <<suttaRef[1]>>
        \/ rootRecords = <<>>
        \/ rootRecords[1].title_verseindex = ""
        \/ targetRecords = <<>>
        \/ \A k \in DOMAIN targetRecords[1].verses :
              \/ targetRecords[1].verses[k].verseindex
                    /= rootRecords[1].title_verseindex
              \/ targetRecords[1].verses[k].verse = <<>>

\* C23: when title resolution fails for a document, the enriched search
\* returns the results of that document as the base search returned them,
\* each once and with the title it had, and the results of every other
\* document are the base results with the resolved title.
C23_FailedResolutionKeepsTitle ==
    EnrichedSearchDone =>
        /\ DocumentsOf(sRet.results) = DocumentsOf(BaseResults)
        /\ \A suttaRef \in DocumentsOf(BaseResults) :
              LET base == ResultsOf(BaseResults, suttaRef)
                  enriched == ResultsOf(sRet.results, suttaRef)
              IN  IF ResolutionFails(suttaRef)
                  THEN enriched = base
                  ELSE /\ Len(enriched) = Len(base)
                       /\ \A k \in DOMAIN base :
                             /\ enriched[k].title /= <<>>
                             /\ [enriched[k] EXCEPT !.title = base[k].title]
                                    = base[k]

C23_Witness ==
    /\ EnrichedSearchDone
    /\ ResolutionFails(Doc(1))
    /\ ~ResolutionFails(Doc(2))
    /\ Len(ResultsOf(sRet.results, Doc(1))) = 2
    /\ sRet.results[1].title = <<"t">>
    /\ Len(ResultsOf(sRet.results, Doc(2))) = 1

(***************************************************************************)
(* The shapes of a thread item.                                            *)
(***************************************************************************)
\* Has the item itself a verseindex and a verse?
IsFlat(threadItem) ==
    threadItem.kind = "object" /\ threadItem.verseindex /= ""
        /\ threadItem.verse /= <<>>

\* The author keys of an item that hold a thread, by position.
ThreadKeys(threadItem) ==
    IF threadItem.kind /= "object" THEN {}
    ELSE {k \in DOMAIN threadItem.authors :
             LET value == threadItem.authors[k].value
             IN  value.kind = "object" /\ value.verseindex /= ""
                     /\ value.verse /= <<>>}

\* What the claim has an item render as: its own verse when it is flat,
\* otherwise that of its first author key holding a thread, otherwise
\* nothing.
VerseShown(threadItem) ==
    IF IsFlat(threadItem)
    THEN <<[id |-> threadItem.verseindex, verse |-> threadItem.verse]>>
    ELSE IF ThreadKeys(threadItem) = {} THEN <<>>
    ELSE LET first == CHOOSE k \in ThreadKeys(threadItem) :
                          \A other \in ThreadKeys(threadItem) : k <= other
             value == threadItem.authors[first].value
         IN  <<[id |-> value.verseindex, verse |-> value.verse]>>

\* C25: the paragraphs rendered so far are, in order, those of the items
\* visited so far: the item's own verse when it has verseindex and verse,
\* otherwise the verse at its first author key that has both, and no
\* paragraph for an item of neither shape.
C25_ShapesTriedInOrder ==
    tPc \in {"rendering", "done"} =>
        [k \in DOMAIN paragraphs |->
            [id |-> paragraphs[k].id,
             verse |-> paragraphs[k].children[1].textContent]]
        = Concat([k \in 1..(threadIndex - 1) |->
                     VerseShown(rootData.thread_list[k])])

C25_Witness ==
    /\ tPc = "done"
    /\ LET first == rootData.thread_list[1]
       IN  /\ ~IsFlat(first)
           /\ first.verseindex /= ""
           /\ ThreadKeys(first) = {1, 2}
           /\ first.authors[1].value.verse /= first.authors[2].value.verse
    /\ rootData.thread_list[2] = NullItem
    /\ Len(paragraphs) = 1
    /\ paragraphs[1].children[1].textContent
           = rootData.thread_list[1].authors[1].value.verse

(***************************************************************************)
(* The verse records of a partition.                                       *)
(***************************************************************************)
\* The entries of the iterated partition whose verse is a non-empty string.
TextEntries ==
    SelectSeq(EntriesOf(db[fStore]),
              LAMBDA entry : entry.verse /= <<>> /\ entry.verse /= NotAString)

\* The text a verse record is matched on.
NormalizedTextOf(verseRecord) ==
    IF "normalized_verse" \in DOMAIN verseRecord
    THEN verseRecord.normalized_verse
    ELSE verseRecord.verse

AloneResults(run) ==
    CASE run.fn = "dexieLanguageAwareSearch" ->
             dexieLanguageAwareSearch(db, run.searchTerm, run.langCode).results
      [] run.fn = "fuseLanguageAwareSearch" ->
             fuseLanguageAwareSearch(db, run.searchTerm, run.langCode,
                                     run.candidates).results
      [] OTHER ->
             enhancedSearchInIndexedDB(db, run.searchTerm, run.langCode,
                                       run.candidates).results

\* C21: however the steps of two searches interleave, a search that has
\* returned has returned what it returns when run alone on the same
\* storage, and no step of a search changes storage.
C21_SearchesDoNotInterfere ==
    /\ [](\A i \in Searches :
             runs /= <<>> /\ runs[i].pc = "done"
                 => runs[i].results = AloneResults(runs[i]))
    /\ [][db' = db]_vars

\* The second search ran from its call to its return between two awaits of
\* the first, both resolving titles of the same documents.
C21_Witness ==
    /\ runs /= <<>>
    /\ runs[1].fn = "enhancedSearchInIndexedDB"
    /\ runs[1].pc = "titles"
    /\ runs[1].processedSuttaRefs = {Doc(1)}
    /\ runs[2].fn = "enhancedSearchInIndexedDB"
    /\ runs[2].pc = "done"
    /\ Len(runs[2].results) = 3
    /\ runs[2].results[1].title /= <<>>

(***************************************************************************)
(* The data loader.                                                        *)
(***************************************************************************)
\* The loader was set to load the files of the list.
Loading == loader.gate = "loading"

\* C27: whatever the outcome of each file, loadNextFile is at every file of
\* the list once and in list order, currentFileIndex is the number of
\* files it was at and never exceeds totalFiles, successfulLoads +
\* failedLoads never exceeds totalFiles, at most one buddhist-texts-loaded
\* event is dispatched, and a loader that has begun comes to return with
\* that event dispatched once.
C27_EveryFileOnceThenOneEvent ==
    /\ [](Loading =>
             /\ loader.processed = [k \in 1..loader.currentFileIndex |-> k]
             /\ loader.currentFileIndex <= totalFiles
             /\ loader.successfulLoads + loader.failedLoads <= totalFiles
             /\ Len(loadedEvents) <= 1
             /\ loadedEvents /= <<>> => loader.pc = "returned")
    /\ [](Loading =>
             <>(/\ loader.pc = "returned"
                /\ loader.currentFileIndex = totalFiles
                /\ Len(loadedEvents) = 1))

\* A run in which a table had data, a file was missing or failed to fetch,
\* and a transaction threw.
C27_Witness ==
    /\ Loading
    /\ loader.pc = "returned"
    /\ loader.processed = <<1, 2, 3>>
    /\ loader.successfulLoads = 1
    /\ loader.failedLoads = 1
    /\ loadedEvents = <<LoadedEvent(1, 1, totalFiles)>>

HasSearchParam == Trim(activation.searchParam) /= <<>>

\* C29: a search event for the URL term is dispatched only with the session
\* flag set, and at most once; while the flag is unset after
\* DOMContentLoaded the check is waiting to run again and no event has been
\* dispatched; once the flag is set one event is dispatched for the term.
C29_InitialSearchWaitsForFlag ==
    /\ [](/\ Len(searchEvents) <= 1
          /\ \A k \in DOMAIN searchEvents :
                /\ searchEvents[k].flag
                /\ searchEvents[k].searchTerm = Trim(activation.searchParam)
          /\ HasSearchParam /\ activation.dom = "ready" /\ ~sessionFlag
                => /\ "checkDatabaseAndSearch" \in timers
                   /\ searchEvents = <<>>)
    /\ [](HasSearchParam /\ activation.dom = "ready" /\ sessionFlag
             => <>(Len(searchEvents) = 1))

\* The check ran with the flag unset, and the event came after the flag.
C29_Witness ==
    /\ activation.checks > 0
    /\ activation.searchParam = <<" ", "a">>
    /\ searchEvents = <<[searchTerm |-> <<"a">>, flag |-> TRUE]>>

====
